---------------------------- MODULE Spec2Model ----------------------------
(***************************************************************************)
(* mongo-import-export: the import and export pipelines of the CLI.        *)
(*                                                                         *)
(* A collection is the set of its documents; a document is a record        *)
(* [_id, v].  Documents that were in the database before the run carry     *)
(* v = 0;   the document at position k of a data file carries v = k, so    *)
(* that the final contents tell which write produced each record.          *)
(***************************************************************************)
EXTENDS Integers, Sequences, FiniteSets, TLC

\* ------------------------------------------------------------- bounds
MaxId == 2          \* _id values are 1..MaxId
MaxDocs == 3        \* documents of one data file
MaxLoad == 4        \* files, documents and unparsable tails in the data folder,
                    \* plus documents in the database before the run
MaxDepth == 2       \* levels of arrays and objects in a document
MaxLen == 2         \* items of an array
MaxChars == 26      \* characters of a string handed to isValidObjectId

\* config.batchSize, src/src/config.ts:13 (BATCH_SIZE of the environment)
batchSize == 2

\* err.code of a duplicate key error, src/src/mongodb/import.ts:44
DuplicateKey == 11000

\* codes of the write errors that are not duplicate key errors
OtherCodes == {91}

Ids == 1..MaxId
Vals == 0..MaxDocs
Docs == [_id : Ids, v : Vals]
Strategies == {"insert", "upsert", "skip"}
Formats == {"json", "csv"}

VARIABLES
    db,                 \* collection name -> set of documents
    db0,                \* db when the run started
    touched,            \* the collections a database operation was applied to
    issued,             \* collection -> the documents handed to executeDbBatch, in order
    disk,               \* the data folder: file name -> content
    manifest,           \* manifest.sha256 in the data folder
    action,             \* main: the action the operator chose; "" without main
    format,             \* argument of importCollections and of exportCollections
    clearCollections,   \* argument of importCollections
    conflictStrategy,   \* argument of importCollections
    pc,                 \* where main, importCollections or exportCollections stands
    dataFiles,          \* importCollections: the files of the format, in listing order
    checksumMap,        \* importCollections: file name -> expected hash
    verificationEnabled,
    collectionInfo,     \* importCollections: the files of the import pass
    countErrors,        \* importCollections: {file, reason} of the counting pass
    importErrors,       \* importCollections: {file, reason} of the run
    idx,                \* position of the running for-of loop
    cur,                \* the locals of the file being imported
    tasks,              \* the calls of executeDbBatch in progress or returned
    unhandled,          \* a rejected promise nobody awaits or catches
    collections,        \* exportCollections: the collection names, in listing order
    checksums,          \* exportCollections: file name -> hash
    exportErrors,       \* exportCollections: {collection, reason} of the run
    fileWriteStream,    \* exportCollections: the write stream of the JSON file
    failed,             \* the collections whose cursor, file write or file read failed
    thrown,             \* the call whose error left the pipeline or main's try block
    exitCode,           \* process.exitCode
    codec,              \* convert.ts: the document being encoded and decoded
    jobs,               \* concurrent export: collection name -> where its job stands
    completedCollections, \* concurrent export: the jobs that ran to their end
    progressBars        \* exportCollections: the collections that have a progress bar

args == <<action, format, clearCollections, conflictStrategy>>
folder == <<disk, manifest>>
importLocals == <<dataFiles, checksumMap, verificationEnabled, collectionInfo,
                  countErrors, importErrors, cur>>
loopVars == <<pc, idx, importLocals>>
exportLocals == <<collections, checksums, exportErrors, fileWriteStream, failed>>
variant == <<jobs, completedCollections>>
vars == <<db, db0, touched, issued, folder, args, loopVars, tasks, unhandled, exportLocals, thrown,
          exitCode, codec, variant, progressBars>>

Range(seq) == {seq[k] : k \in 1..Len(seq)}

Put(f, k, v) == [x \in DOMAIN f \cup {k} |-> IF x = k THEN v ELSE f[x]]

\* ------------------------------------------------------- the database
HasId(coll, i) == \E d \in coll : d._id = i

UniqueIds(coll) == \A d, e \in coll : d._id = e._id => d = e

Collections(docs) == {c \in SUBSET docs : UniqueIds(c)}

RECURSIVE BatchesOf(_, _)
BatchesOf(docs, n) ==
    IF n = 0 THEN {<<>>}
    ELSE LET shorter == BatchesOf(docs, n - 1)
         IN shorter \cup {Append(b, d) : b \in {s \in shorter : Len(s) = n - 1}, d \in docs}


\* insertMany as an ordered insert would do it: it stops at the first
\* duplicate key error.
RECURSIVE insertManyOrdered(_, _)
insertManyOrdered(coll, batch) ==
    IF batch = <<>> THEN [coll |-> coll, code |-> 0]
    ELSE IF HasId(coll, Head(batch)._id) THEN [coll |-> coll, code |-> DuplicateKey]
    ELSE insertManyOrdered(coll \cup {Head(batch)}, Tail(batch))

\* collection.insertMany(batch, { ordered: false }): the documents are tried in
\* array order; one whose _id is taken is left out and the others are still
\* written; the call then fails with a duplicate key error.
RECURSIVE insertMany(_, _)
insertMany(coll, batch) ==
    IF batch = <<>> THEN [coll |-> coll, code |-> 0]
    ELSE LET doc == Head(batch)
             dup == HasId(coll, doc._id)
             rest == insertMany(IF dup THEN coll ELSE coll \cup {doc}, Tail(batch))
         IN [coll |-> rest.coll, code |-> IF dup THEN DuplicateKey ELSE rest.code]

\* operations with the two strategies taken for each other.
operationsSwapped(strategy, batch) ==
    [k \in 1..Len(batch) |->
        IF strategy = "skip"
        THEN [name |-> "replaceOne", filter |-> batch[k]._id, doc |-> batch[k], upsert |-> TRUE]
        ELSE [name |-> "updateOne", filter |-> batch[k]._id, doc |-> batch[k], upsert |-> TRUE]]

\* The operations executeDbBatch builds for bulkWrite.
operations(strategy, batch) ==
    [k \in 1..Len(batch) |->
        IF strategy = "upsert"
        THEN [name |-> "replaceOne", filter |-> batch[k]._id, doc |-> batch[k], upsert |-> TRUE]
        ELSE [name |-> "updateOne", filter |-> batch[k]._id, doc |-> batch[k], upsert |-> TRUE]]

\* applyOperation without the upsert: a filter that matches nothing writes
\* nothing.
applyOperationNoUpsert(coll, op) ==
    IF HasId(coll, op.filter) /\ op.name = "replaceOne"
    THEN {d \in coll : d._id # op.filter} \cup {op.doc}
    ELSE coll

\* applyOperation with a write that takes away the record the filter matches.
applyOperationToggle(coll, op) ==
    IF HasId(coll, op.filter)
    THEN {d \in coll : d._id # op.filter}
    ELSE coll \cup {op.doc}

\* One operation of a bulk write: replaceOne replaces the record the filter
\* matches; updateOne with $setOnInsert changes nothing in a record the filter
\* matches; with upsert either one creates the record when none matches.
applyOperation(coll, op) ==
    IF HasId(coll, op.filter)
    THEN IF op.name = "replaceOne"
         THEN {d \in coll : d._id # op.filter} \cup {op.doc}
         ELSE coll
    ELSE IF op.upsert THEN coll \cup {op.doc} ELSE coll

\* collection.bulkWrite(operations, { ordered: false })
RECURSIVE bulkWrite(_, _)
bulkWrite(coll, ops) ==
    IF ops = <<>> THEN coll
    ELSE bulkWrite(applyOperation(coll, Head(ops)), Tail(ops))

\* ------------------------------------------------------ the data folder
\* A file name is <base>.<ext>.
File(base, ext) == [base |-> base, ext |-> ext]

NullName == "<null>"

\* fileName.match(/^(.+)\.(json|csv)$/)
getCollectionName(fileName) ==
    IF fileName.base # "" /\ fileName.ext \in {"json", "csv"} THEN fileName.base ELSE NullName

CollectionNames == {"a", "b"}

\* The collections of a database that is exported: a MongoDB collection name
\* may hold spaces.
ExportNames == <<"a", "a b", "b">>

\* A file of the folder that is no data file.
Notes == File("notes", "txt")

\* fs.readdir lists the folder in name order.
Listing(ext) == <<File("", ext), File("a b", ext), File("a", ext), File("b", ext), Notes>>

\* The content of a data file: the _id of each of its documents, in order; bad
\* when the text after them cannot be parsed; small when the file has at most
\* 2 bytes (then it holds no document).
Content(docs, bad, small) == [docs |-> docs, bad |-> bad, small |-> small, flipped |-> FALSE]

\* crypto.createHash('sha256').update(bytes).digest('hex'): different contents
\* have different digests.
sha256(bytes) == <<"sha256", bytes>>

\* The content with one byte changed.
FlipByte(bytes) == [bytes EXCEPT !.flipped = ~@]

\* The documents a file decodes to.
Decode(bytes) == [k \in 1..Len(bytes.docs) |-> [_id |-> bytes.docs[k], v |-> k]]

\* The words of a collection name, that is the name cut at its spaces: the
\* names of the model have one word, but for "a b".
Words(base) == IF base = "a b" THEN <<"a", "b">> ELSE <<base>>

Space == [kind |-> "space", text |-> ""]

Text(t) == [kind |-> "text", text |-> t]

\* The characters of a file name <base>.<ext>, word by word: the last word
\* carries the extension.
NameTokens(file) ==
    LET w == Words(file.base)
        n == Len(w)
    IN [k \in 1..(2 * n - 1) |->
           IF k % 2 = 0 THEN Space
           ELSE IF k = 2 * n - 1 THEN Text(File(w[n], file.ext))
           ELSE Text(File(w[(k + 1) \div 2], ""))]

\* export.ts line 152: `${hash}  ${file}`
ManifestLine(hash, file) == <<Text(hash), Space, Space>> \o NameTokens(file)

\* export.ts lines 151-153: the lines of the manifest, one for each entry in
\* the order the entries were made; join('\n') puts a line break between
\* them.
ManifestText(entries, order) ==
    LET made == SelectSeq(order, LAMBDA f : f \in DOMAIN entries)
    IN [k \in 1..Len(made) |-> ManifestLine(entries[made[k]], made[k])]

\* line.split(/ +/): the pieces of the line between its runs of spaces.
SplitSpaces(line) ==
    LET pieces == SelectSeq(line, LAMBDA t : t.kind # "space")
    IN [k \in 1..Len(pieces) |-> pieces[k].text]

\* ParseManifest that keeps no line.
ParseManifestNothing(text) == <<>>

\* import.ts lines 77-80: each line of the text is split at its spaces, its
\* first piece is the hash and its second the file; a later line with the
\* same file replaces the earlier one.
RECURSIVE ParseManifest(_)
ParseManifest(text) ==
    IF text = <<>> THEN <<>>
    ELSE LET earlier == ParseManifest(SubSeq(text, 1, Len(text) - 1))
             pieces == SplitSpaces(text[Len(text)])
         IN IF Len(pieces) >= 2 THEN Put(earlier, pieces[2], pieces[1]) ELSE earlier

\* entries: the mapping the writer of the manifest put into its text.
NoManifest == [present |-> FALSE, entries |-> <<>>, text |-> <<>>]

\* ---------------------------------------------------- executeDbBatch
\* A call of executeDbBatch(db, collectionName, batch, clearCollections,
\* conflictStrategy) made by ctx.  An empty batch returns at once; otherwise
\* the first database operation is in flight.
NewTask(ctx, collectionName, batch, clear) ==
    [ctx |-> ctx, collectionName |-> collectionName, batch |-> batch, clear |-> clear,
     stage |-> IF batch = <<>> THEN "returned" ELSE "call", code |-> 0]

\* The .catch of insertMany: only a duplicate key error is swallowed.
insertCatch(code) == IF code # DuplicateKey THEN code ELSE 0

Settle(t, code) == [t EXCEPT !.stage = IF code = 0 THEN "returned" ELSE "threw", !.code = code]

\* The process is alive: once it has exited nothing of it runs, and the
\* operations it had sent and that were not yet applied are lost.
Running == pc \notin {"crashed", "exited"}

dbFrame == <<db0, issued, folder, args, codec, variant, progressBars, loopVars, unhandled, exportLocals, thrown, exitCode>>

\* await collection.deleteMany({})
DeleteMany(t) ==
    /\ Running
    /\ t.stage = "call"
    /\ t.clear
    /\ \E fault \in {0} \cup OtherCodes :
          IF fault = 0
          THEN /\ db' = [db EXCEPT ![t.collectionName] = {}]
               /\ tasks' = (tasks \ {t}) \cup {[t EXCEPT !.stage = "cleared"]}
          ELSE /\ db' = db
               /\ tasks' = (tasks \ {t}) \cup {Settle(t, fault)}
    /\ touched' = touched \cup {t.collectionName}
    /\ UNCHANGED dbFrame

\* await collection.insertMany(batch, { ordered: false }).catch(...); a write
\* error that is no duplicate key error may leave a part of the batch written.
InsertMany(t) ==
    /\ Running
    /\ IF t.clear THEN t.stage = "cleared"
                  ELSE t.stage = "call" /\ conflictStrategy = "insert"
    /\ \E fault \in {0} \cup OtherCodes, n \in 0..Len(t.batch) :
          /\ fault = 0 => n = Len(t.batch)
          /\ LET r == insertMany(db[t.collectionName], SubSeq(t.batch, 1, n))
             IN /\ db' = [db EXCEPT ![t.collectionName] = r.coll]
                /\ tasks' = (tasks \ {t}) \cup
                       {Settle(t, insertCatch(IF fault = 0 THEN r.code ELSE fault))}
    /\ touched' = touched \cup {t.collectionName}
    /\ UNCHANGED dbFrame

\* await collection.bulkWrite(operations, { ordered: false })
BulkWrite(t) ==
    /\ Running
    /\ t.stage = "call" /\ ~t.clear /\ conflictStrategy # "insert"
    /\ \E fault \in {0} \cup OtherCodes, n \in 0..Len(t.batch) :
          /\ fault = 0 => n = Len(t.batch)
          /\ db' = [db EXCEPT ![t.collectionName] =
                       bulkWrite(@, operations(conflictStrategy, SubSeq(t.batch, 1, n)))]
          /\ tasks' = (tasks \ {t}) \cup {Settle(t, fault)}
    /\ touched' = touched \cup {t.collectionName}
    /\ UNCHANGED dbFrame

\* ------------------------------------- executeDbBatch called on its own
BatchDocs == [_id : Ids, v : {0, 1}]

NoStream == [open |-> FALSE, listening |-> FALSE, processedDocuments |-> 0, buffered |-> 0]

NoCur == [file |-> File("", ""), shouldClear |-> FALSE, batch |-> <<>>, pos |-> 0,
          flowing |-> FALSE, ended |-> FALSE, errored |-> FALSE, elapsed |-> FALSE,
          promise |-> "none"]

\* No document is being converted.
NoCodec == [pc |-> "", doc |-> <<>>, out |-> <<>>]

Idle(at) ==
    /\ pc = at
    /\ disk = <<>>
    /\ manifest = NoManifest
    /\ dataFiles = <<>>
    /\ checksumMap = <<>>
    /\ verificationEnabled = FALSE
    /\ collectionInfo = <<>>
    /\ countErrors = <<>>
    /\ importErrors = <<>>
    /\ idx = 0
    /\ cur = NoCur
    /\ unhandled = {}
    /\ jobs = <<>>
    /\ completedCollections = 0
    /\ progressBars = {}
    /\ collections = <<>>
    /\ checksums = <<>>
    /\ exportErrors = <<>>
    /\ fileWriteStream = NoStream
    /\ failed = {}
    /\ thrown = ""
    /\ exitCode = 0

InitBatch ==
    /\ Idle("executeDbBatch")
    /\ codec = NoCodec
    /\ action = ""
    /\ format = "json"
    /\ clearCollections \in BOOLEAN
    /\ conflictStrategy \in Strategies
    /\ \E prior \in Collections(BatchDocs) : db = [f \in {"a"} |-> prior]
    /\ db0 = db
    /\ touched = {}
    /\ issued = [c \in DOMAIN db |-> <<>>]
    /\ \E batch \in BatchesOf(BatchDocs, batchSize) :
          tasks = {NewTask("call", "a", batch, clearCollections)}

NextBatch ==
    \/ \E t \in tasks : DeleteMany(t)
    \/ \E t \in tasks : InsertMany(t)
    \/ \E t \in tasks : BulkWrite(t)

SpecBatch == InitBatch /\ [][NextBatch]_vars


\* -------------------------------------------------- importCollections
importFrame == <<db, db0, touched, issued, folder, args, codec, variant, progressBars, tasks, exportLocals>>
stepFrame == <<importFrame, unhandled, thrown, exitCode>>
quietFrame == <<db, db0, touched, folder, args, codec, variant, progressBars, exportLocals, unhandled, thrown, exitCode>>

MinSecond(a, b) == b

\* Line 267: slice(i, i + batchSize) stops at the end of the array.
Min(a, b) == IF a < b THEN a ELSE b

\* The context ctx has a call of executeDbBatch on this collection under way.
Calls(ctx, collectionName) ==
    {t \in tasks : t.ctx = ctx /\ t.collectionName = collectionName}

\* The file the loop is importing is the one this call was made for.
Current(t) == pc \in {"json", "csv"} /\ getCollectionName(cur.file) = t.collectionName

\* verifyError without the comparison of the two hashes.
verifyErrorNoCompare(file) ==
    IF ~verificationEnabled THEN ""
    ELSE IF file \notin DOMAIN checksumMap THEN "No checksum found"
    ELSE ""

\* Lines 101-111 and 192-203: the checksum of a file against the manifest.
verifyError(file) ==
    IF ~verificationEnabled THEN ""
    ELSE IF file \notin DOMAIN checksumMap THEN "No checksum found"
    ELSE IF sha256(disk[file]) # checksumMap[file] THEN "Checksum mismatch"
    ELSE ""

\* A counting pass that never fails.
countParseErrorNone(file) == ""

\* The counting with its parser run on the files of at most 2 bytes too, and
\* failing on them.
countParseErrorSmall(file) ==
    IF format = "json" /\ (disk[file].small \/ disk[file].bad)
       THEN "Checksum mismatch (parsing error)"
       ELSE ""

\* Lines 113-134: the counting of a file's documents; "" when it succeeds.
countParseError(file) ==
    IF format = "json" /\ ~disk[file].small /\ disk[file].bad THEN "Checksum mismatch (parsing error)" ELSE ""

\* file.endsWith(ext) for any file
endsWithAnything(file, ext) == TRUE

\* file.endsWith(`.${format}`), line 65
endsWith(file, ext) == file.ext = ext

\* Lines 64-86: the listing of the folder and the loading of the manifest.
\* readdir may fail, and the failure leaves importCollections.
Discover ==
    /\ pc = "importCollections"
    /\ \E readable \in BOOLEAN :
          IF ~readable
          THEN /\ pc' = "threw"
               /\ thrown' = "readdir"
               /\ UNCHANGED <<dataFiles, checksumMap, verificationEnabled, idx>>
          ELSE LET files == SelectSeq(Listing(format), LAMBDA f : f \in DOMAIN disk)
               IN /\ dataFiles' = SelectSeq(files, LAMBDA f : endsWith(f, format))
                  /\ checksumMap' = IF manifest.present THEN ParseManifest(manifest.text)
                                    ELSE <<>>
                  /\ verificationEnabled' = (manifest.present /\ DOMAIN checksumMap' # {})
                  /\ pc' = IF dataFiles' = <<>> THEN "returned" ELSE "count"
                  /\ idx' = 1
                  /\ UNCHANGED thrown
    /\ UNCHANGED <<importFrame, unhandled, exitCode, collectionInfo, countErrors, importErrors,
                   cur>>

\* Lines 90-143: one round of the counting loop.
CountFile ==
    /\ pc = "count"
    /\ idx <= Len(dataFiles)
    /\ LET file == dataFiles[idx]
           collectionName == getCollectionName(file)
           reason == IF verifyError(file) # "" THEN verifyError(file) ELSE countParseError(file)
           totalDocuments == IF reason # "" THEN 1
                             ELSE IF format = "json" /\ disk[file].small THEN 0
                             ELSE Len(disk[file].docs)
       IN IF collectionName = NullName
          THEN /\ countErrors' = Append(countErrors, [file |-> file, reason |-> "Invalid file name"])
               /\ UNCHANGED collectionInfo
          ELSE /\ countErrors' = IF reason # ""
                                 THEN Append(countErrors, [file |-> file, reason |-> reason])
                                 ELSE countErrors
               /\ collectionInfo' = Append(collectionInfo,
                      [file |-> file, collectionName |-> collectionName,
                       totalDocuments |-> totalDocuments])
    /\ idx' = idx + 1
    /\ UNCHANGED <<stepFrame, pc, dataFiles, checksumMap, verificationEnabled, importErrors, cur>>

\* Lines 145-178: between the two loops.
BeginImport ==
    /\ pc = "count"
    /\ idx > Len(dataFiles)
    /\ IF collectionInfo = <<>>
       THEN pc' = "returned" /\ UNCHANGED <<importErrors, idx>>
       ELSE pc' = "import" /\ importErrors' = countErrors /\ idx' = 1
    /\ UNCHANGED <<stepFrame, dataFiles, checksumMap, verificationEnabled, collectionInfo,
                   countErrors, cur>>

\* countErrors.find(...) that finds nothing
findCountErrorNothing(file) == FALSE

\* countErrors.find(err => err.file === file), line 184
findCountError(file) == \E e \in Range(countErrors) : e.file = file

\* Lines 180-218 and 258-264: a round of the import loop up to its first await
\* on the stream or on the database.
StartFile ==
    /\ pc = "import"
    /\ idx <= Len(collectionInfo)
    /\ LET file == collectionInfo[idx].file
           countError == findCountError(file)
           reason == verifyError(file)
       IN IF countError
          THEN idx' = idx + 1 /\ UNCHANGED <<pc, importErrors, cur>>
          ELSE IF reason # ""
          THEN /\ importErrors' = Append(importErrors, [file |-> file, reason |-> reason])
               /\ idx' = idx + 1
               /\ UNCHANGED <<pc, cur>>
          ELSE /\ pc' = format
               /\ cur' = [file |-> file, shouldClear |-> clearCollections, batch |-> <<>>,
                          pos |-> 0, flowing |-> (format = "json"), ended |-> FALSE,
                          elapsed |-> FALSE,
                          errored |-> FALSE,
                          promise |-> IF format = "json" THEN "pending" ELSE "none"]
               /\ UNCHANGED <<importErrors, idx>>
    /\ UNCHANGED <<stepFrame, dataFiles, checksumMap, verificationEnabled, collectionInfo,
                   countErrors>>

\* Lines 218, 226-227 and 235: currentTime - lastUpdateTime reaches 100 ms. The
\* clock is read by the 'data' handler only; lastUpdateTime is set when a file
\* starts and after every flush.
Tick ==
    /\ pc = "json"
    /\ cur.flowing /\ ~cur.errored /\ ~cur.ended
    /\ ~cur.elapsed
    /\ cur' = [cur EXCEPT !.elapsed = TRUE]
    /\ UNCHANGED <<quietFrame, tasks, issued, pc, dataFiles, checksumMap,
                   verificationEnabled, collectionInfo, countErrors, importErrors, idx>>

\* Lines 220-231 and 238: the 'data' handler up to its await, or to its end
\* when the batch is not flushed.  elapsed: 100 ms have passed since the last
\* flush.
OnData ==
    /\ pc = "json"
    /\ cur.flowing /\ ~cur.errored /\ ~cur.ended
    /\ cur.pos < Len(disk[cur.file].docs)
    /\ LET batch == Append(cur.batch, Decode(disk[cur.file])[cur.pos + 1])
          IN IF Len(batch) >= batchSize \/ cur.elapsed
             THEN /\ cur' = [cur EXCEPT !.batch = batch, !.pos = @ + 1, !.flowing = FALSE]
                  /\ tasks' = tasks \cup
                        {NewTask("data", getCollectionName(cur.file), batch, cur.shouldClear)}
                  /\ issued' = [issued EXCEPT ![getCollectionName(cur.file)] = @ \o batch]
             ELSE /\ cur' = [cur EXCEPT !.batch = batch, !.pos = @ + 1]
                  /\ tasks' = tasks
                  /\ issued' = issued
    /\ UNCHANGED <<quietFrame, pc, dataFiles, checksumMap,
                   verificationEnabled, collectionInfo, countErrors, importErrors, idx>>

\* Lines 230-238: the 'data' handler after its await returned.
OnDataReturned(t) ==
    /\ Running
    /\ t.ctx = "data" /\ t.stage = "returned"
    /\ tasks' = tasks \ {t}
    /\ cur' = IF Current(t)
              THEN [cur EXCEPT !.shouldClear = FALSE, !.batch = <<>>, !.flowing = TRUE,
                               !.elapsed = FALSE]
              ELSE cur
    /\ UNCHANGED <<quietFrame, issued, pc, dataFiles, checksumMap,
                   verificationEnabled, collectionInfo, countErrors, importErrors, idx>>

\* A rejected promise that nobody awaits or catches: the process ends at once
\* with exit code 1 (what Node.js does by default since version 15; README
\* asks for version 20 or later).
UnhandledRejection(collectionName) ==
    /\ unhandled' = unhandled \cup {collectionName}
    /\ pc' = "crashed"
    /\ exitCode' = 1

\* Line 229 throws inside the async 'data' handler: the promise the handler
\* returned is rejected and nobody holds it.
OnDataThrew(t) ==
    /\ Running
    /\ t.ctx = "data" /\ t.stage = "threw"
    /\ tasks' = tasks \ {t}
    /\ UnhandledRejection(t.collectionName)
    /\ UNCHANGED <<db, db0, touched, issued, folder, args, codec, variant, progressBars, exportLocals, thrown, dataFiles, checksumMap, verificationEnabled,
                   collectionInfo, countErrors, importErrors, idx, cur>>

\* Lines 241-250: the 'end' handler up to its await, or to resolve().  The
\* stream ends once every document was handed over; it does so although the
\* stream is paused when the end of the input was read with the last document,
\* that is while the 'data' handler of that document is still awaiting.
OnEnd ==
    /\ pc = "json"
    /\ ~cur.ended /\ ~cur.errored
    /\ cur.pos = Len(disk[cur.file].docs)
    /\ ~disk[cur.file].bad
    /\ cur.flowing \/ Calls("data", getCollectionName(cur.file)) # {}
    /\ IF cur.batch # <<>>
       THEN /\ cur' = [cur EXCEPT !.ended = TRUE]
            /\ tasks' = tasks \cup
                  {NewTask("end", getCollectionName(cur.file), cur.batch, cur.shouldClear)}
            /\ issued' = [issued EXCEPT ![getCollectionName(cur.file)] = @ \o cur.batch]
       ELSE /\ cur' = [cur EXCEPT !.ended = TRUE, !.promise = "resolved"]
            /\ tasks' = tasks
            /\ issued' = issued
    /\ UNCHANGED <<quietFrame, pc, dataFiles, checksumMap,
                   verificationEnabled, collectionInfo, countErrors, importErrors, idx>>

\* Lines 245-249: the 'end' handler after its await returned.
OnEndReturned(t) ==
    /\ Running
    /\ t.ctx = "end" /\ t.stage = "returned"
    /\ tasks' = tasks \ {t}
    /\ cur' = IF Current(t) /\ cur.promise = "pending"
              THEN [cur EXCEPT !.promise = "resolved"]
              ELSE cur
    /\ UNCHANGED <<quietFrame, issued, pc, dataFiles, checksumMap,
                   verificationEnabled, collectionInfo, countErrors, importErrors, idx>>

\* Line 243 throws inside the async 'end' handler: resolve() is never reached.
OnEndThrew(t) ==
    /\ Running
    /\ t.ctx = "end" /\ t.stage = "threw"
    /\ tasks' = tasks \ {t}
    /\ UnhandledRejection(t.collectionName)
    /\ UNCHANGED <<db, db0, touched, issued, folder, args, codec, variant, progressBars, exportLocals, thrown, dataFiles, checksumMap, verificationEnabled,
                   collectionInfo, countErrors, importErrors, idx, cur>>

\* Lines 252-254: the parser met text it cannot parse.
OnError ==
    /\ pc = "json"
    /\ ~cur.ended /\ ~cur.errored
    /\ cur.pos = Len(disk[cur.file].docs)
    /\ disk[cur.file].bad
    /\ cur' = [cur EXCEPT !.errored = TRUE,
                          !.promise = IF @ = "pending" THEN "rejected" ELSE @]
    /\ UNCHANGED <<stepFrame, pc, dataFiles, checksumMap, verificationEnabled,
                   collectionInfo, countErrors, importErrors, idx>>

\* Lines 208, 255 and 287-294: the await of the file's promise ends.
Settled ==
    /\ pc = "json"
    /\ cur.promise \in {"resolved", "rejected"}
    /\ importErrors' = IF cur.promise = "rejected"
                       THEN Append(importErrors, [file |-> cur.file, reason |-> "Checksum mismatch (parsing error)"])
                       ELSE importErrors
    /\ idx' = idx + 1
    /\ pc' = "import"
    /\ cur' = NoCur
    /\ UNCHANGED <<stepFrame, dataFiles, checksumMap, verificationEnabled, collectionInfo,
                   countErrors>>

\* Lines 266-268: a round of the CSV loop up to its await.
CsvBatch ==
    /\ pc = "csv"
    /\ Calls("csv", getCollectionName(cur.file)) = {}
    /\ cur.pos < Len(disk[cur.file].docs)
    /\ LET documents == Decode(disk[cur.file])
           batch == SubSeq(documents, cur.pos + 1, Min(cur.pos + batchSize, Len(documents)))
       IN /\ tasks' = tasks \cup
                 {NewTask("csv", getCollectionName(cur.file), batch, cur.shouldClear)}
          /\ issued' = [issued EXCEPT ![getCollectionName(cur.file)] = @ \o batch]
    /\ UNCHANGED <<quietFrame, loopVars>>

\* Lines 268-270 and 266: the await returned.
CsvReturned(t) ==
    /\ pc = "csv"
    /\ t.ctx = "csv" /\ t.stage = "returned"
    /\ tasks' = tasks \ {t}
    /\ cur' = [cur EXCEPT !.shouldClear = FALSE, !.pos = @ + batchSize]
    /\ UNCHANGED <<quietFrame, issued, pc, dataFiles, checksumMap,
                   verificationEnabled, collectionInfo, countErrors, importErrors, idx>>

\* Lines 268 and 287-294: the await threw, the catch of the file takes it.
CsvThrew(t) ==
    /\ pc = "csv"
    /\ t.ctx = "csv" /\ t.stage = "threw"
    /\ tasks' = tasks \ {t}
    /\ importErrors' = Append(importErrors, [file |-> cur.file, reason |-> "write error"])
    /\ idx' = idx + 1
    /\ pc' = "import"
    /\ cur' = NoCur
    /\ UNCHANGED <<quietFrame, issued, dataFiles, checksumMap,
                   verificationEnabled, collectionInfo, countErrors>>

\* Lines 266 and 281-294: the CSV loop is over.
CsvDone ==
    /\ pc = "csv"
    /\ Calls("csv", getCollectionName(cur.file)) = {}
    /\ cur.pos >= Len(disk[cur.file].docs)
    /\ idx' = idx + 1
    /\ pc' = "import"
    /\ cur' = NoCur
    /\ UNCHANGED <<stepFrame, dataFiles, checksumMap, verificationEnabled, collectionInfo,
                   countErrors, importErrors>>

\* Lines 297-311: the summary; importCollections returns.
Summary ==
    /\ pc = "import"
    /\ idx > Len(collectionInfo)
    /\ pc' = "returned"
    /\ UNCHANGED <<stepFrame, dataFiles, checksumMap, verificationEnabled, collectionInfo,
                   countErrors, importErrors, idx, cur>>

NextImport ==
    \/ Discover
    \/ CountFile
    \/ BeginImport
    \/ StartFile
    \/ Tick
    \/ OnData
    \/ \E t \in tasks : OnDataReturned(t)
    \/ \E t \in tasks : OnDataThrew(t)
    \/ OnEnd
    \/ \E t \in tasks : OnEndReturned(t)
    \/ \E t \in tasks : OnEndThrew(t)
    \/ OnError
    \/ Settled
    \/ CsvBatch
    \/ \E t \in tasks : CsvReturned(t)
    \/ \E t \in tasks : CsvThrew(t)
    \/ CsvDone
    \/ Summary
    \/ \E t \in tasks : DeleteMany(t)
    \/ \E t \in tasks : InsertMany(t)
    \/ \E t \in tasks : BulkWrite(t)

\* ------------------------------------------------ the inputs of a run
RECURSIVE IdSeqs(_)
IdSeqs(n) ==
    IF n = 0 THEN {<<>>}
    ELSE LET shorter == IdSeqs(n - 1)
         IN shorter \cup {Append(q, i) : q \in {r \in shorter : Len(r) = n - 1}, i \in Ids}

\* The contents a data file may have: a small file holds no document.
Contents ==
    {Content(docs, bad, FALSE) : docs \in IdSeqs(MaxDocs), bad \in BOOLEAN}
        \cup {Content(<<>>, bad, TRUE) : bad \in BOOLEAN}

RECURSIVE Sum(_, _)
Sum(f, S) == IF S = {} THEN 0 ELSE LET x == CHOOSE y \in S : TRUE IN f[x] + Sum(f, S \ {x})

\* The size of a run's input.
Load(d, base) ==
    Sum([f \in DOMAIN d |-> 1 + Len(d[f].docs) + IF d[f].bad THEN 1 ELSE 0], DOMAIN d)
        + Sum([c \in DOMAIN base |-> Cardinality(base[c])], DOMAIN base)

\* The manifests a folder may come with: none, or one with an entry for some
\* of the files, each the digest of the file or of the file before a byte of
\* it changed.
Manifests(d) ==
    {NoManifest} \cup
    {[present |-> TRUE, entries |-> e] :
        e \in UNION {[S -> BOOLEAN] :
                        S \in SUBSET {f \in DOMAIN d : getCollectionName(f) # NullName}}}

Entries(d, m) ==
    LET entries == [f \in DOMAIN m.entries |->
                       IF m.entries[f] THEN sha256(d[f]) ELSE sha256(FlipByte(d[f]))]
    IN [present |-> m.present, entries |-> entries,
        text |-> ManifestText(entries, Listing(format))]

\* The size of a file.
Weight(c) == 1 + Len(c.docs) + IF c.bad THEN 1 ELSE 0

\* The contents the file may have when the folder has room for budget: a file
\* without a usable name is empty, a CSV file is never unparsable.
Allowed(f, budget) ==
    {c \in Contents :
        /\ Weight(c) <= budget
        /\ getCollectionName(f) = NullName => c = Content(<<>>, FALSE, FALSE)
        /\ f.ext = "csv" => ~c.bad /\ ~c.small}

\* The data folders with some of these files and of this size at most.
RECURSIVE Folders(_, _)
Folders(files, budget) ==
    IF files = <<>> THEN {<<>>}
    ELSE Folders(Tail(files), budget) \cup
         UNION {{Put(d, Head(files), c) : d \in Folders(Tail(files), budget - Weight(c))} :
                   c \in Allowed(Head(files), budget)}

\* The arguments of a call of importCollections, the database and the data
\* folder it finds.
ImportRun ==
    /\ format \in Formats
    /\ clearCollections \in BOOLEAN
    /\ conflictStrategy \in Strategies
    /\ db \in [CollectionNames -> Collections([_id : Ids, v : {0}])]
    /\ db0 = db
    /\ touched = {}
    /\ disk \in Folders(<<File("", format), File("a", format), File("b", format), Notes>>,
                        MaxLoad)
    /\ File("b", format) \in DOMAIN disk => File("a", format) \in DOMAIN disk
    /\ \A c \in CollectionNames : db[c] # {} => File(c, format) \in DOMAIN disk
    /\ Load(disk, db) <= MaxLoad
    /\ \E m \in Manifests(disk) : manifest = Entries(disk, m)

\* Nothing has run yet.
AtRest ==
    /\ codec = NoCodec
    /\ issued = [c \in DOMAIN db |-> <<>>]
    /\ dataFiles = <<>>
    /\ checksumMap = <<>>
    /\ verificationEnabled = FALSE
    /\ collectionInfo = <<>>
    /\ countErrors = <<>>
    /\ importErrors = <<>>
    /\ idx = 0
    /\ cur = NoCur
    /\ tasks = {}
    /\ unhandled = {}
    /\ jobs = <<>>
    /\ completedCollections = 0
    /\ progressBars = {}
    /\ collections = <<>>
    /\ checksums = <<>>
    /\ exportErrors = <<>>
    /\ fileWriteStream = NoStream
    /\ failed = {}
    /\ thrown = ""
    /\ exitCode = 0

InitImport ==
    /\ pc = "importCollections"
    /\ action = ""
    /\ ImportRun
    /\ AtRest

SpecImport == InitImport /\ [][NextImport]_vars

\* Every database and file operation eventually returns or fails, and every
\* handler that can run does run.
SpecImportFair == SpecImport /\ WF_vars(NextImport)

\* What the file stream and the clock do: the next document, the end of the
\* file, a parser error, the passing of 100 ms.
Arrival == Tick \/ OnData \/ OnEnd \/ OnError

\* A slow file: the handlers and the database keep running, nothing says when
\* the stream delivers its next event.
SpecImportSlow == SpecImport /\ WF_vars(NextImport /\ ~Arrival)


\* -------------------------------------------------- exportCollections
exportFrame == <<db, db0, touched, issued, args, codec, variant, progressBars, importLocals, tasks, unhandled>>

\* The _id values of a collection in ascending order: the order the cursor
\* hands the documents over.
RECURSIVE Ascending(_)
Ascending(S) ==
    IF S = {} THEN <<>>
    ELSE LET least == CHOOSE x \in S : \A y \in S : x <= y
         IN <<least>> \o Ascending(S \ {least})

CursorIds(coll) == Ascending({d._id : d \in coll})

\* emptyContent as an array that is opened and never closed.
emptyContentUnclosed == Content(<<>>, TRUE, FALSE)

\* Line 60: what is written for an empty collection, '[]' or ''.
emptyContent == Content(<<>>, FALSE, format = "json")

\* The file of a collection when n of its documents were written: without
\* the closing bracket the text cannot be parsed; with no document yet the
\* text is '[\n', which has 2 bytes.
Written(coll, n, closed) == Content(SubSeq(CursorIds(coll), 1, n), ~closed, n = 0 /\ ~closed)

\* A catch that records nothing.
CaughtUnrecorded(name, reason) ==
    /\ exportErrors' = exportErrors
    /\ fileWriteStream' = NoStream
    /\ idx' = idx + 1
    /\ pc' = "export"
    /\ thrown' = thrown

\* Lines 134-143: the catch of the collection's try block, and the end of the
\* round of the loop.  bar is progressBars[name] (line 67): for a collection
\* without a bar it is undefined, and bar.stop() of line 138 throws a TypeError
\* out of the catch block, of the loop and of exportCollections.
Caught(name, reason) ==
    /\ exportErrors' = Append(exportErrors, [collection |-> name, reason |-> reason])
    /\ IF name \in progressBars
       THEN /\ fileWriteStream' = NoStream
            /\ idx' = idx + 1
            /\ pc' = "export"
            /\ thrown' = thrown
       ELSE /\ pc' = "threw"
            /\ thrown' = "bar.stop"
            /\ UNCHANGED <<fileWriteStream, idx>>

\* An error nobody catches or listens to: the process ends with exit code 1.
UncaughtException ==
    /\ pc' = "crashed"
    /\ exitCode' = 1

\* Lines 14-19.
ListCollections ==
    /\ pc = "exportCollections"
    /\ \E fault \in BOOLEAN :
          IF fault
          THEN /\ pc' = "threw"
               /\ thrown' = "listCollections"
               /\ UNCHANGED <<collections, idx>>
          ELSE /\ collections' = SelectSeq(ExportNames, LAMBDA c : c \in DOMAIN db)
               /\ pc' = IF collections' = <<>> THEN "returned" ELSE "precount"
               /\ idx' = 1
               /\ UNCHANGED thrown
    /\ UNCHANGED <<exportFrame, folder, checksums, exportErrors, fileWriteStream, failed,
                   exitCode>>

\* Lines 40-45: a round of the loop that creates the progress bars.
PreCount ==
    /\ pc = "precount"
    /\ idx <= Len(collections)
    /\ \E fault \in BOOLEAN :
          IF fault
          THEN pc' = "threw" /\ thrown' = "countDocuments" /\ UNCHANGED <<idx, progressBars>>
          ELSE /\ idx' = idx + 1
               /\ progressBars' = IF db[collections[idx]] # {}
                                  THEN progressBars \cup {collections[idx]}
                                  ELSE progressBars
               /\ UNCHANGED <<pc, thrown>>
    /\ UNCHANGED <<db, db0, touched, issued, args, codec, variant, importLocals, tasks, unhandled,
                   folder, exportLocals, exitCode>>

\* Lines 47-50.
BeginExport ==
    /\ pc = "precount"
    /\ idx > Len(collections)
    /\ pc' = "export"
    /\ idx' = 1
    /\ UNCHANGED <<exportFrame, folder, exportLocals, thrown, exitCode>>

\* Lines 52-79 and 111-113: a round of the export loop up to the first await
\* inside the try block.
ExportCollection ==
    /\ pc = "export"
    /\ idx <= Len(collections)
    /\ LET name == collections[idx]
           fileName == File(name, format)
       IN \E fault \in {"", "countDocuments", "writeFile"} :
             /\ fault = "writeFile" => db[name] = {}
             /\ IF fault # ""
                THEN /\ pc' = "threw"
                     /\ thrown' = fault
                     /\ UNCHANGED <<disk, checksums, idx, fileWriteStream>>
                ELSE IF db[name] = {}
                THEN /\ disk' = Put(disk, fileName, emptyContent)
                     /\ checksums' = Put(checksums, fileName, sha256(emptyContent))
                     /\ idx' = idx + 1
                     /\ UNCHANGED <<pc, thrown, fileWriteStream>>
                ELSE IF format = "json"
                THEN /\ fileWriteStream' = [open |-> TRUE, listening |-> FALSE,
                                            processedDocuments |-> 0, buffered |-> 0]
                     /\ disk' = Put(disk, fileName, Written(db[name], 0, FALSE))
                     /\ pc' = "exportJson"
                     /\ UNCHANGED <<checksums, idx, thrown>>
                ELSE /\ pc' = "exportCsv"
                     /\ UNCHANGED <<disk, checksums, idx, thrown, fileWriteStream>>
    /\ UNCHANGED <<exportFrame, manifest, collections, exportErrors, failed, exitCode>>

\* Lines 81-97: the cursor hands over the next document, or fails.  After the
\* first document bar.update() is called (lastUpdateTime is 0, line 70): for a
\* collection without a bar this throws a TypeError, the catch records it and
\* throws again at bar.stop().  write()
\* puts the text of the document into the buffer of the stream and returns;
\* its result is not looked at and 'drain' is not awaited.
CursorNext ==
    /\ pc = "exportJson"
    /\ fileWriteStream.processedDocuments < Cardinality(db[collections[idx]])
    /\ LET name == collections[idx]
       IN \E fault \in BOOLEAN :
             IF fault
             THEN /\ failed' = failed \cup {name}
                  /\ Caught(name, "cursor error")
                  /\ UNCHANGED disk
             ELSE /\ fileWriteStream' = [fileWriteStream EXCEPT !.processedDocuments = @ + 1,
                                                                  !.buffered = @ + 1]
                  /\ IF name \in progressBars
                     THEN UNCHANGED <<pc, exportErrors, thrown>>
                     ELSE /\ exportErrors' = Append(exportErrors,
                                                    [collection |-> name, reason |-> "TypeError"])
                          /\ pc' = "threw"
                          /\ thrown' = "bar.stop"
                  /\ UNCHANGED <<disk, idx, failed>>
    /\ UNCHANGED <<exportFrame, manifest, collections, checksums, exitCode>>

\* The write stream writes the oldest document of its buffer to the file.
WriteChunk ==
    /\ pc \in {"exportJson", "finish"}
    /\ fileWriteStream.open
    /\ fileWriteStream.buffered > 0
    /\ fileWriteStream' = [fileWriteStream EXCEPT !.buffered = @ - 1]
    /\ disk' = Put(disk, File(collections[idx], format),
                   Written(db[collections[idx]],
                           fileWriteStream.processedDocuments - fileWriteStream.buffered + 1,
                           FALSE))
    /\ UNCHANGED <<exportFrame, manifest, pc, collections, checksums, exportErrors, failed, idx,
                   thrown, exitCode>>

\* Lines 99-105: the end of the array is written, the stream is ended, and
\* only now the 'finish' and 'error' listeners are attached.
EndStream ==
    /\ pc = "exportJson"
    /\ fileWriteStream.processedDocuments = Cardinality(db[collections[idx]])
    /\ fileWriteStream' = [fileWriteStream EXCEPT !.listening = TRUE]
    /\ pc' = "finish"
    /\ UNCHANGED <<exportFrame, folder, collections, checksums, exportErrors, failed, idx,
                   thrown, exitCode>>

\* Lines 77-105: the write stream emits 'error' (the file cannot be opened,
\* a write fails).  With the listener of line 104 the promise is rejected and
\* the catch takes the error; before line 104 the stream has no 'error'
\* listener and the event is an uncaught exception.
StreamError ==
    /\ pc \in {"exportJson", "finish"}
    /\ fileWriteStream.open
    /\ failed' = failed \cup {collections[idx]}
    /\ IF fileWriteStream.listening
       THEN Caught(collections[idx], "write error") /\ UNCHANGED exitCode
       ELSE UncaughtException /\ UNCHANGED <<exportErrors, fileWriteStream, idx, thrown>>
    /\ UNCHANGED <<exportFrame, folder, collections, checksums>>

\* Lines 102-108: the stream emits 'finish'.
Finish ==
    /\ pc = "finish"
    /\ fileWriteStream.buffered = 0
    /\ disk' = Put(disk, File(collections[idx], format),
                   Written(db[collections[idx]], Cardinality(db[collections[idx]]), TRUE))
    /\ fileWriteStream' = NoStream
    /\ pc' = "hash"
    /\ UNCHANGED <<exportFrame, manifest, collections, checksums, exportErrors, failed, idx,
                   thrown, exitCode>>

\* Lines 111-128: the documents are collected from the cursor and written
\* with fs.writeFile.  Without a bar, bar.update() after the first document
\* throws a TypeError before the file is written.
CsvWrite ==
    /\ pc = "exportCsv"
    /\ LET name == collections[idx]
       IN \E fault \in {"", "cursor error", "write error"} :
             IF fault # ""
             THEN /\ fault = "write error" => name \in progressBars
                  /\ failed' = failed \cup {name}
                  /\ Caught(name, fault)
                  /\ UNCHANGED disk
             ELSE IF name \notin progressBars
             THEN /\ Caught(name, "TypeError")
                  /\ UNCHANGED <<disk, failed>>
             ELSE /\ disk' = Put(disk, File(name, format),
                                 Written(db[name], Cardinality(db[name]), TRUE))
                  /\ pc' = "hash"
                  /\ UNCHANGED <<idx, exportErrors, fileWriteStream, failed, thrown>>
    /\ UNCHANGED <<exportFrame, manifest, collections, checksums, exitCode>>

\* Lines 131-132 and 142-143: the file is read back and hashed.
Hash ==
    /\ pc = "hash"
    /\ LET name == collections[idx]
           fileName == File(name, format)
       IN \E fault \in BOOLEAN :
             IF fault
             THEN /\ failed' = failed \cup {name}
                  /\ Caught(name, "read error")
                  /\ UNCHANGED checksums
             ELSE /\ checksums' = Put(checksums, fileName, sha256(disk[fileName]))
                  /\ idx' = idx + 1
                  /\ pc' = "export"
                  /\ UNCHANGED <<exportErrors, fileWriteStream, failed, thrown>>
    /\ UNCHANGED <<exportFrame, folder, collections, exitCode>>

\* Lines 146-173: the manifest and the summary; exportCollections returns.
WriteManifest ==
    /\ pc = "export"
    /\ idx > Len(collections)
    /\ IF DOMAIN checksums = {}
       THEN pc' = "returned" /\ UNCHANGED <<manifest, thrown>>
       ELSE \E fault \in BOOLEAN :
               IF fault
               THEN pc' = "threw" /\ thrown' = "manifest" /\ UNCHANGED manifest
               ELSE /\ manifest' =
                          [present |-> TRUE, entries |-> checksums,
                           text |-> ManifestText(checksums,
                                       [k \in 1..Len(collections) |->
                                           File(collections[k], format)])]
                    /\ pc' = "returned"
                    /\ UNCHANGED thrown
    /\ UNCHANGED <<exportFrame, disk, exportLocals, idx, exitCode>>

NextExport ==
    \/ ListCollections
    \/ PreCount
    \/ BeginExport
    \/ ExportCollection
    \/ CursorNext
    \/ WriteChunk
    \/ EndStream
    \/ StreamError
    \/ Finish
    \/ CsvWrite
    \/ Hash
    \/ WriteManifest

\* The arguments of a call of exportCollections, the database and the data
\* folder it finds.
ExportRun ==
    /\ format \in Formats
    /\ clearCollections = FALSE
    /\ conflictStrategy = "insert"
    /\ \E S \in SUBSET Range(ExportNames) : db \in [S -> Collections([_id : Ids, v : {0}])]
    /\ db0 = db
    /\ touched = {}
    /\ disk = <<>>
    /\ manifest = NoManifest

InitExport ==
    /\ pc = "exportCollections"
    /\ action = ""
    /\ ExportRun
    /\ AtRest

SpecExport == InitExport /\ [][NextExport]_vars

\* Another client of the database inserts a document into a collection,
\* between two steps of the two loops of exportCollections.
Writer ==
    /\ pc \in {"precount", "export"}
    /\ \E c \in DOMAIN db, d \in [_id : Ids, v : {0}] :
          /\ ~HasId(db[c], d._id)
          /\ db' = [db EXCEPT ![c] = @ \cup {d}]
    /\ UNCHANGED <<db0, touched, issued, folder, args, loopVars, tasks, unhandled, exportLocals,
                   thrown, exitCode, codec, variant, progressBars>>

NextExportWriters == NextExport \/ Writer

SpecExportWriters == InitExport /\ [][NextExportWriters]_vars


\* ------------------------------- exportCollections, concurrent variant
\* cli.ts lines 176-312: one job per collection, all started by Promise.all.
\* A job runs from one await to the next without being interrupted; between
\* two awaits of a job any other job may run.
concurrentFrame == <<db, db0, touched, issued, args, codec, progressBars, importLocals, idx, tasks, unhandled,
                     fileWriteStream, failed, exitCode>>

NewJob == [pc |-> "count", documents |-> 0, produced |-> FALSE]

\* An accumulator that forgets what the other jobs have put into it.
setChecksumAlone(sums, fileName, fileContent) == Put(<<>>, fileName, sha256(fileContent))

\* Lines 259-260: checksums[fileName] = hash.digest('hex')
setChecksum(sums, fileName, fileContent) == Put(sums, fileName, sha256(fileContent))

\* Lines 177-209: the collections are listed and the jobs are created.
StartJobs ==
    /\ pc = "exportConcurrent"
    /\ \E fault \in BOOLEAN :
          IF fault
          THEN /\ pc' = "threw"
               /\ thrown' = "listCollections"
               /\ UNCHANGED <<collections, jobs>>
          ELSE /\ collections' = SelectSeq(ExportNames, LAMBDA c : c \in DOMAIN db)
               /\ pc' = IF collections' = <<>> THEN "returned" ELSE "jobs"
               /\ jobs' = [c \in Range(collections') |-> NewJob]
               /\ UNCHANGED thrown
    /\ UNCHANGED <<concurrentFrame, folder, checksums, exportErrors, completedCollections>>

\* Lines 210-222: the count returns; an empty collection ends its job.  The
\* await is outside the try block: when it fails the job's promise rejects.
JobCount(name) ==
    /\ pc = "jobs"
    /\ jobs[name].pc = "count"
    /\ \E fault \in BOOLEAN :
          IF fault
          THEN /\ jobs' = [jobs EXCEPT ![name].pc = "rejected"]
               /\ UNCHANGED completedCollections
          ELSE IF db[name] = {}
          THEN /\ jobs' = [jobs EXCEPT ![name].pc = "done"]
               /\ completedCollections' = completedCollections + 1
          ELSE /\ jobs' = [jobs EXCEPT ![name].pc = "cursor"]
               /\ UNCHANGED completedCollections
    /\ UNCHANGED <<concurrentFrame, folder, pc, thrown, collections, checksums, exportErrors>>

\* Lines 237-247 and 266-280: the cursor hands over the next document, or
\* fails; the catch and the rest of the job have no await.
JobCursor(name) ==
    /\ pc = "jobs"
    /\ jobs[name].pc = "cursor"
    /\ jobs[name].documents < Cardinality(db[name])
    /\ \E fault \in BOOLEAN :
          IF fault
          THEN /\ exportErrors' = Append(exportErrors,
                                         [collection |-> name, reason |-> "cursor error"])
               /\ completedCollections' = completedCollections + 1
               /\ jobs' = [jobs EXCEPT ![name].pc = "done"]
          ELSE /\ jobs' = [jobs EXCEPT ![name].documents = @ + 1]
               /\ UNCHANGED <<exportErrors, completedCollections>>
    /\ UNCHANGED <<concurrentFrame, folder, pc, thrown, collections, checksums>>

\* Lines 248-262: the cursor is exhausted, the content of the file is made
\* and hashed, and the write of the file is started.
JobContent(name) ==
    /\ pc = "jobs"
    /\ jobs[name].pc = "cursor"
    /\ jobs[name].documents = Cardinality(db[name])
    /\ checksums' = setChecksum(checksums, File(name, format),
                                Written(db[name], Cardinality(db[name]), TRUE))
    /\ jobs' = [jobs EXCEPT ![name].pc = "write", ![name].produced = TRUE]
    /\ UNCHANGED <<concurrentFrame, folder, pc, thrown, collections, exportErrors,
                   completedCollections>>

\* Lines 262-280: fs.writeFile returns or fails, and the job ends.
JobWrite(name) ==
    /\ pc = "jobs"
    /\ jobs[name].pc = "write"
    /\ \E fault \in BOOLEAN :
          IF fault
          THEN /\ exportErrors' = Append(exportErrors,
                                         [collection |-> name, reason |-> "write error"])
               /\ UNCHANGED disk
          ELSE /\ disk' = Put(disk, File(name, format),
                              Written(db[name], Cardinality(db[name]), TRUE))
               /\ UNCHANGED exportErrors
    /\ completedCollections' = completedCollections + 1
    /\ jobs' = [jobs EXCEPT ![name].pc = "done"]
    /\ UNCHANGED <<concurrentFrame, manifest, pc, thrown, collections, checksums>>

\* Line 209: Promise.all rejects as soon as one job has rejected.
PromiseAllRejects ==
    /\ pc = "jobs"
    /\ \E c \in DOMAIN jobs : jobs[c].pc = "rejected"
    /\ pc' = "threw"
    /\ thrown' = "countDocuments"
    /\ UNCHANGED <<concurrentFrame, folder, exportLocals, variant>>

\* Lines 209 and 282-312: every job has run to its end; the manifest and the
\* summary.
PromiseAllResolves ==
    /\ pc = "jobs"
    /\ \A c \in DOMAIN jobs : jobs[c].pc = "done"
    /\ IF DOMAIN checksums = {}
       THEN pc' = "returned" /\ UNCHANGED <<manifest, thrown>>
       ELSE \E fault \in BOOLEAN :
               IF fault
               THEN pc' = "threw" /\ thrown' = "manifest" /\ UNCHANGED manifest
               ELSE /\ manifest' =
                          [present |-> TRUE, entries |-> checksums,
                           text |-> ManifestText(checksums,
                                       [k \in 1..Len(collections) |->
                                           File(collections[k], format)])]
                    /\ pc' = "returned"
                    /\ UNCHANGED thrown
    /\ UNCHANGED <<concurrentFrame, disk, collections, checksums, exportErrors, variant>>

NextConcurrent ==
    \/ StartJobs
    \/ \E name \in DOMAIN jobs : JobCount(name)
    \/ \E name \in DOMAIN jobs : JobCursor(name)
    \/ \E name \in DOMAIN jobs : JobContent(name)
    \/ \E name \in DOMAIN jobs : JobWrite(name)
    \/ PromiseAllRejects
    \/ PromiseAllResolves

InitConcurrent ==
    /\ pc = "exportConcurrent"
    /\ action = ""
    /\ ExportRun
    /\ AtRest

SpecConcurrent == InitConcurrent /\ [][NextConcurrent]_vars


\* --------------------------------------------- export, then import
\* The folder exportCollections has written is imported as it is into an
\* empty database: db0 keeps the database that was exported.
Reimport ==
    /\ action = "export-import"
    /\ pc = "returned"
    /\ action' = "import"
    /\ pc' = "importCollections"
    /\ db' = [c \in DOMAIN db |-> {}]
    /\ idx' = 0
    /\ UNCHANGED <<db0, touched, issued, folder, format, clearCollections, conflictStrategy, codec, variant, progressBars,
                   importLocals, tasks, unhandled, exportLocals, thrown, exitCode>>

NextRoundTrip ==
    \/ NextExport
    \/ Reimport
    \/ NextImport

InitRoundTrip ==
    /\ pc = "exportCollections"
    /\ action = "export-import"
    /\ format \in Formats
    /\ clearCollections \in BOOLEAN
    /\ conflictStrategy \in Strategies
    /\ clearCollections => conflictStrategy = "insert"
    /\ \E S \in SUBSET Range(ExportNames) : db \in [S -> Collections([_id : Ids, v : {0}])]
    /\ Sum([c \in DOMAIN db |-> Cardinality(db[c])], DOMAIN db) <= MaxDocs
    /\ db0 = db
    /\ touched = {}
    /\ disk = <<>>
    /\ manifest = NoManifest
    /\ AtRest

SpecRoundTrip == InitRoundTrip /\ [][NextRoundTrip]_vars


\* --------------------------------------------- import, then import again
\* The operator runs the import a second time on the same folder, once the
\* first run has written its summary without a failure and its writes are
\* done: db0 keeps the database the first run left.
ImportAgain ==
    /\ action = "import-twice"
    /\ pc = "returned"
    /\ collectionInfo # <<>>
    /\ importErrors = <<>>
    /\ tasks = {}
    /\ action' = "import-again"
    /\ pc' = "importCollections"
    /\ db0' = db
    /\ touched' = {}
    /\ issued' = [c \in DOMAIN db |-> <<>>]
    /\ dataFiles' = <<>>
    /\ checksumMap' = <<>>
    /\ verificationEnabled' = FALSE
    /\ collectionInfo' = <<>>
    /\ countErrors' = <<>>
    /\ importErrors' = <<>>
    /\ idx' = 0
    /\ cur' = NoCur
    /\ UNCHANGED <<db, folder, format, clearCollections, conflictStrategy, codec, variant, progressBars, tasks,
                   unhandled, exportLocals, thrown, exitCode>>

NextTwice ==
    \/ NextImport
    \/ ImportAgain

InitTwice ==
    /\ pc = "importCollections"
    /\ action = "import-twice"
    /\ ImportRun
    /\ AtRest

SpecTwice == InitTwice /\ [][NextTwice]_vars


\* ------------------------------------------------------------ convert.ts
\* The values of a document. An ObjectId is its 12 bytes, here a number of
\* Oids; a Date is its milliseconds since the epoch, here a number of Times.
Num(n) == [t |-> "num", n |-> n]
Str(s) == [t |-> "str", s |-> s]
ObjectId(bytes) == [t |-> "oid", bytes |-> bytes]
Date(ms) == [t |-> "date", ms |-> ms]
Arr(items) == [t |-> "arr", items |-> items]
Obj(fields) == [t |-> "obj", fields |-> fields]
Entry(key, value) == [key |-> key, value |-> value]
Null == [t |-> "null"]
Undefined == [t |-> "undefined"]
NaN == [t |-> "nan"]
BSONError == [t |-> "BSONError"]

Oids == {1, 2}
Times == {0, 1}

\* new Date(NaN), the Invalid Date
InvalidTime == -1

\* value.toHexString(): 24 lower case hexadecimal digits
toHexString(oid) ==
    CASE oid.bytes = 1 -> "0000000000000000000000a1"
      [] oid.bytes = 2 -> "0000000000000000000000a2"
      [] OTHER -> "000000000000000000000001"

\* the bytes a string of 24 hexadecimal digits stands for, in either case
HexBytes ==
    ("0000000000000000000000a1" :> 1) @@ ("0000000000000000000000A1" :> 1) @@
    ("0000000000000000000000a2" :> 2) @@ ("0000000000000000000000A2" :> 2) @@
    ("000000000000000000000001" :> 3)

\* value.toISOString() with the milliseconds left out
toISOStringSeconds(date) == "1970-01-01T00:00:00Z"

\* value.toISOString(): the time to the millisecond
toISOString(date) ==
    IF date.ms = 0 THEN "1970-01-01T00:00:00.000Z" ELSE "1970-01-01T00:00:00.001Z"

\* Date.parse(str); a string that is no date gives NaN
DateParse ==
    ("1970-01-01T00:00:00.000Z" :> 0) @@ ("1970-01-01T00:00:00.001Z" :> 1) @@
    ("1970-01-01T00:00:00Z" :> 0)

\* the strings the regular expression of isValidDate finds a match in
WithMilliseconds == {"1970-01-01T00:00:00.000Z", "1970-01-01T00:00:00.001Z"}

\* Number(str)
NumberOf == ("0" :> 0) @@ ("1" :> 1) @@ ("2" :> 2)

\* validate.ts
isValidObjectId(str) == str \in DOMAIN HexBytes

\* A test no string passes.
isValidDateNever(str) == FALSE

isValidDate(str) == str \in WithMilliseconds /\ str \in DOMAIN DateParse

\* new ObjectId(input) for the input of a JSON text
newObjectId(input) ==
    IF input.t = "str" /\ input.s \in DOMAIN HexBytes
       THEN ObjectId(HexBytes[input.s])
       ELSE BSONError

\* new Date(str)
newDate(str) == Date(IF str \in DOMAIN DateParse THEN DateParse[str] ELSE InvalidTime)

\* Number(value) for the values of a JSON text
Number(value) ==
    CASE value.t = "num" -> value
      [] value.t = "str" /\ value.s \in DOMAIN NumberOf -> Num(NumberOf[value.s])
      [] value.t = "str" /\ value.s \in {"", " "} -> Num(0)
      [] value.t = "null" -> Num(0)
      [] OTHER -> NaN

\* doc[key]
Get(doc, key) ==
    IF \E k \in 1..Len(doc.fields) : doc.fields[k].key = key
       THEN doc.fields[CHOOSE k \in 1..Len(doc.fields) : doc.fields[k].key = key].value
       ELSE Undefined

\* if (value)
Truthy(value) ==
    CASE value.t = "undefined" -> FALSE
      [] value.t = "null" -> FALSE
      [] value.t = "nan" -> FALSE
      [] value.t = "num" -> value.n # 0
      [] value.t = "str" -> value.s # ""
      [] OTHER -> TRUE

\* prepareForJSONExport(doc)
RECURSIVE prepareForJSONExport(_)
prepareForJSONExport(doc) ==
    CASE doc.t = "arr" ->
            Arr([k \in 1..Len(doc.items) |-> prepareForJSONExport(doc.items[k])])
      [] doc.t = "oid" -> Obj(<<Entry("$oid", Str(toHexString(doc)))>>)
      [] doc.t = "date" -> Obj(<<Entry("$date", Str(toISOString(doc)))>>)
      [] doc.t = "obj" ->
            Obj([k \in 1..Len(doc.fields) |->
                    Entry(doc.fields[k].key, prepareForJSONExport(doc.fields[k].value))])
      [] OTHER -> doc

\* convertExtendedJSON(doc) for the values of a JSON text and the values
\* prepareForJSONExport returns
RECURSIVE convertExtendedJSON(_)
convertExtendedJSON(doc) ==
    CASE doc.t = "arr" ->
            Arr([k \in 1..Len(doc.items) |-> convertExtendedJSON(doc.items[k])])
      [] doc.t = "obj" ->
            LET oid == Get(doc, "$oid")
                date == Get(doc, "$date")
                numberInt == Get(doc, "$numberInt")
                field(e) ==
                    IF e.value.t = "str"
                       THEN IF e.key = "_id" /\ isValidObjectId(e.value.s)
                               THEN newObjectId(e.value)
                               ELSE IF isValidDate(e.value.s)
                                       THEN newDate(e.value.s)
                                       ELSE e.value
                       ELSE convertExtendedJSON(e.value)
            IN  IF Truthy(oid)
                   THEN newObjectId(oid)
                   ELSE IF Truthy(date) /\ date.t = "obj" /\ Truthy(Get(date, "$numberLong"))
                   THEN LET ms == Number(Get(date, "$numberLong"))
                        IN  Date(IF ms.t = "num" THEN ms.n ELSE InvalidTime)
                   ELSE IF Truthy(date) /\ date.t = "str"
                   THEN newDate(date.s)
                   ELSE IF Truthy(numberInt)
                   THEN Number(numberInt)
                   ELSE Obj([k \in 1..Len(doc.fields) |->
                                Entry(doc.fields[k].key, field(doc.fields[k]))])
      [] OTHER -> doc

\* The documents of the check: _id and one more field, whose value is nested
\* up to MaxDepth levels.  Arrays of up to MaxLen items and objects of two
\* fields hold ObjectId, Date and numbers; an array of one item, an object of
\* one field and the second field of an object of two hold any value of the
\* level below.
Keys == <<"_id", "a">>

Leaves == {ObjectId(b) : b \in Oids} \cup {Date(ms) : ms \in Times} \cup {Num(n) : n \in 0..1}

ArraysOf(V) == UNION {{Arr(items) : items \in [1..n -> V]} : n \in 0..MaxLen}

ObjectsOf(V, W) ==
    {Obj(<<>>)}
        \cup {Obj(<<Entry(Keys[k], w)>>) : k \in 1..Len(Keys), w \in W}
        \cup {Obj(<<Entry(Keys[1], v), Entry(Keys[2], w)>>) : v \in V, w \in W}

RECURSIVE Values(_)
Values(depth) ==
    IF depth = 0
       THEN Leaves
       ELSE LET below == Values(depth - 1)
            IN Leaves \cup ArraysOf(Leaves) \cup {Arr(<<w>>) : w \in below}
                   \cup ObjectsOf(Leaves, below)

Documents ==
    {Obj(<<Entry("_id", id), Entry("a", value)>>) : id \in Leaves, value \in Values(MaxDepth)}

\* const preparedDoc = prepareForJSONExport(doc), export.ts line 85
Encode ==
    /\ codec.pc = "doc"
    /\ codec' = [codec EXCEPT !.pc = "prepared", !.out = prepareForJSONExport(codec.doc)]
    /\ UNCHANGED <<db, db0, touched, issued, folder, args, loopVars, tasks, unhandled,
                   exportLocals, thrown, exitCode, variant, progressBars>>

\* convertExtendedJSON(value), import.ts: the value handed to the batch
Convert ==
    /\ codec.pc = "prepared"
    /\ codec' = [codec EXCEPT !.pc = "converted", !.out = convertExtendedJSON(codec.out)]
    /\ UNCHANGED <<db, db0, touched, issued, folder, args, loopVars, tasks, unhandled,
                   exportLocals, thrown, exitCode, variant, progressBars>>

NextCodec == Encode \/ Convert

InitCodec ==
    /\ Idle("convert")
    /\ action = ""
    /\ format = "json"
    /\ clearCollections = FALSE
    /\ conflictStrategy = "insert"
    /\ db = <<>>
    /\ db0 = db
    /\ touched = {}
    /\ issued = <<>>
    /\ tasks = {}
    /\ \E doc \in Documents : codec = [pc |-> "doc", doc |-> doc, out |-> doc]

SpecCodec == InitCodec /\ [][NextCodec]_vars

\* ------------------------------------- convertExtendedJSON on any JSON text
\* The strings of the JSON texts: the empty string, a word, 24 hexadecimal
\* digits in either case, 23 hexadecimal digits, a date with and without
\* milliseconds, a numeral.
JsonStrings ==
    {"", "x", "0000000000000000000000a1", "0000000000000000000000A2",
     "00000000000000000000000", "1970-01-01T00:00:00.001Z", "1970-01-01T00:00:00Z", "1"}

\* The names of the untagged fields.
FieldNames == {"_id", "a", "createdAt"}

\* { "$oid": s }, { "$date": s }, { "$date": { "$numberLong": s } }, { "$numberInt": s }
Tagged(tag, s) ==
    IF tag = "$numberLong"
       THEN Obj(<<Entry("$date", Obj(<<Entry("$numberLong", Str(s))>>))>>)
       ELSE Obj(<<Entry(tag, Str(s))>>)

Tags == {"$oid", "$date", "$numberLong", "$numberInt"}

JsonLeaves ==
    {Str(s) : s \in JsonStrings} \cup {Num(0), Num(1), Null}
        \cup {Tagged(tag, s) : tag \in Tags, s \in JsonStrings}

\* The values JSON.parse may hand to convertExtendedJSON: a leaf, an array of
\* leaves, an object whose fields hold leaves or one such array or object.
JsonTexts ==
    LET flat == JsonLeaves
                  \cup {Arr(<<v>>) : v \in JsonLeaves}
                  \cup {Obj(<<Entry(k, v)>>) : k \in FieldNames, v \in JsonLeaves}
    IN flat \cup {Arr(<<v, w>>) : v \in JsonLeaves, w \in {Str("x"), Num(1)}}
            \cup {Obj(<<Entry("_id", v), Entry("a", w)>>) :
                     v \in {Str(s) : s \in JsonStrings}, w \in flat}

\* The call has thrown: an error raised for a part of the value leaves the
\* whole call.
RECURSIVE Raised(_)
Raised(value) ==
    CASE value = BSONError -> TRUE
      [] value.t = "arr" -> \E k \in 1..Len(value.items) : Raised(value.items[k])
      [] value.t = "obj" -> \E k \in 1..Len(value.fields) : Raised(value.fields[k].value)
      [] OTHER -> FALSE

\* convertExtendedJSON(data.value), import.ts line 222
DecodeText ==
    /\ codec.pc = "parsed"
    /\ codec' = [codec EXCEPT !.pc = "decoded", !.out = convertExtendedJSON(codec.doc)]
    /\ UNCHANGED <<db, db0, touched, issued, folder, args, loopVars, tasks, unhandled,
                   exportLocals, thrown, exitCode, variant, progressBars>>

NextDecode == DecodeText

InitDecode ==
    /\ Idle("convert")
    /\ action = ""
    /\ format = "json"
    /\ clearCollections = FALSE
    /\ conflictStrategy = "insert"
    /\ db = <<>>
    /\ db0 = db
    /\ touched = {}
    /\ issued = <<>>
    /\ tasks = {}
    /\ \E doc \in JsonTexts : codec = [pc |-> "parsed", doc |-> doc, out |-> doc]

SpecDecode == InitDecode /\ [][NextDecode]_vars

\* ------------------------------------------------------- convertCSVRow
Bool(b) == [t |-> "bool", b |-> b]
SyntaxError == [t |-> "SyntaxError"]

\* The names of the columns and the texts of the cells: empty, blank, a word,
\* 24 digits, 24 hexadecimal digits, a date, numerals, true and false in
\* either case, JSON texts.
CsvKeys == {"_id", "a", "createdAt", "startDt"}

CsvCells ==
    {"", " ", "x", "000000000000000000000001", "0000000000000000000000a1",
     "1970-01-01T00:00:00.001Z", "1", "2", "true", "FALSE",
     "[1]", "{\"$oid\":\"x\"}", "{\"$oid\":\"0000000000000000000000a1\"}"}

\* key.endsWith('At') || key.endsWith('Dt')
endsWithAtOrDt(key) == key \in {"createdAt", "startDt"}

\* stringValue.trim()
trim(str) == IF str = " " THEN "" ELSE str

\* stringValue.toLowerCase()
toLowerCase(str) ==
    CASE str = "FALSE" -> "false"
      [] OTHER -> str

\* JSON.parse(stringValue)
JSONParse(str) ==
    CASE str = "[1]" -> Arr(<<Num(1)>>)
      [] str = "{\"$oid\":\"x\"}" -> Obj(<<Entry("$oid", Str("x"))>>)
      [] str = "{\"$oid\":\"0000000000000000000000a1\"}" ->
            Obj(<<Entry("$oid", Str("0000000000000000000000a1"))>>)
      [] str \in DOMAIN NumberOf -> Num(NumberOf[str])
      [] str = "true" -> Bool(TRUE)
      [] str = "false" -> Bool(FALSE)
      [] OTHER -> SyntaxError

\* A test for a number that takes a blank cell for 0.
isNumberUntrimmed(str) == Number(Str(str)).t = "num"

\* !isNaN(Number(stringValue)) && stringValue.trim() !== '', line 66
isNumber(str) == Number(Str(str)).t = "num" /\ trim(str) # ""

\* Lines 49-77: one cell of the row.
convertCSVCell(key, value) ==
    IF value = "" THEN Str(value)
    ELSE IF key = "_id" /\ isValidObjectId(value) THEN newObjectId(Str(value))
    ELSE IF endsWithAtOrDt(key) /\ isValidDate(value) THEN newDate(value)
    ELSE IF isValidObjectId(value) THEN newObjectId(Str(value))
    ELSE IF isValidDate(value) THEN newDate(value)
    ELSE IF isNumber(value) THEN Number(Str(value))
    ELSE IF toLowerCase(value) \in {"true", "false"} THEN Bool(toLowerCase(value) = "true")
    ELSE LET parsed == JSONParse(value)
         IN IF parsed = SyntaxError
               THEN Str(value)
               ELSE IF Raised(convertExtendedJSON(parsed))
                       THEN Str(value)
                       ELSE convertExtendedJSON(parsed)

\* convertCSVRow(row)
convertCSVRow(row) ==
    Obj([k \in 1..Len(row.fields) |->
            Entry(row.fields[k].key,
                  convertCSVCell(row.fields[k].key, row.fields[k].value.s))])

\* The rows Papa.parse hands over: every cell is a string.
CsvRows ==
    {Obj(<<Entry("_id", Str(id)), Entry(key, Str(cell))>>) :
        id \in CsvCells, key \in CsvKeys \ {"_id"}, cell \in CsvCells}

\* parsed.data.map(row => convertCSVRow(row)), import.ts line 260
ConvertRow ==
    /\ codec.pc = "row"
    /\ codec' = [codec EXCEPT !.pc = "document", !.out = convertCSVRow(codec.doc)]
    /\ UNCHANGED <<db, db0, touched, issued, folder, args, loopVars, tasks, unhandled,
                   exportLocals, thrown, exitCode, variant, progressBars>>

NextCsvRow == ConvertRow

InitCsvRow ==
    /\ Idle("convert")
    /\ action = ""
    /\ format = "csv"
    /\ clearCollections = FALSE
    /\ conflictStrategy = "insert"
    /\ db = <<>>
    /\ db0 = db
    /\ touched = {}
    /\ issued = <<>>
    /\ tasks = {}
    /\ \E row \in CsvRows : codec = [pc |-> "row", doc |-> row, out |-> row]

SpecCsvRow == InitCsvRow /\ [][NextCsvRow]_vars

(***************************************************************************)
(* export.ts, the CSV branch: Papa.unparse(prepareForCSVExport(documents)). *)
(***************************************************************************)

\* The field names besides _id, and the values the exported fields hold.
ExportKeys == {"a", "b"}
ExportValues == {Str("x"), Date(1), Arr(<<Num(1)>>)}

\* The orders in which a document holds some of the field names.
KeyOrders ==
    {order \in UNION {[1..n -> ExportKeys] : n \in 0..Cardinality(ExportKeys)} :
        \A i, j \in DOMAIN order : i # j => order[i] # order[j]}

\* The fields a document holds after its _id, in their order.
ExportFields ==
    UNION {{[j \in DOMAIN order |-> Entry(order[j], values[j])] :
               values \in [DOMAIN order -> ExportValues]} : order \in KeyOrders}

\* The k-th document of the cursor: _id, then its fields.
ExportDocument(k, fields) == Obj(<<Entry("_id", Num(k))>> \o fields)

\* JSON.stringify(value) of an array or object
JSONstringify(value) ==
    CASE value = Arr(<<Num(1)>>) -> "[1]"
      [] value = Arr(<<>>) -> "[]"
      [] OTHER -> "{}"

\* prepareForCSVExport: every document keeps its own keys in their order;
\* an ObjectId becomes its hexadecimal text, a Date its ISO text, any other
\* object its JSON text.
prepareForCSVExport(documents) ==
    [k \in DOMAIN documents |->
        Obj([j \in DOMAIN documents[k].fields |->
            LET key == documents[k].fields[j].key
                value == documents[k].fields[j].value
            IN Entry(key,
                   CASE value.t = "oid" -> Str(toHexString(value))
                     [] value.t = "date" -> Str(toISOString(value))
                     [] value.t \in {"arr", "obj"} -> Str(JSONstringify(value))
                     [] OTHER -> value)])]

\* Object.keys(object)
ObjectKeys(object) == [j \in DOMAIN object.fields |-> object.fields[j].key]

\* value.toString() of a number
NumberToString(n) == IF n \in 1..4 THEN <<"1", "2", "3", "4">>[n] ELSE "0"

\* Papa.unparse writes a cell: undefined and null give the empty cell.
safe(value) ==
    CASE value.t \in {"undefined", "null"} -> ""
      [] value.t = "str" -> value.s
      [] value.t = "num" -> NumberToString(value.n)
      [] OTHER -> JSONstringify(value)

\* The lines of a CSV file: the header and a row of cells for every object.
serialize(fields, data) ==
    [header |-> fields,
     rows |-> [k \in DOMAIN data |-> [j \in DOMAIN fields |-> safe(Get(data[k], fields[j]))]]]

\* Papa.unparse with the columns of the last object
unparseByLast(data) ==
    IF data = <<>> THEN [header |-> <<>>, rows |-> <<>>]
    ELSE serialize(ObjectKeys(data[Len(data)]), data)

\* Papa.unparse(data) of an array of objects: the columns are
\* Object.keys(data[0]).
unparse(data) ==
    IF data = <<>> THEN [header |-> <<>>, rows |-> <<>>]
    ELSE serialize(ObjectKeys(data[1]), data)

\* const fileContent = Papa.unparse(prepareForCSVExport(documents))
UnparseDocuments ==
    /\ codec.pc = "documents"
    /\ codec' = [codec EXCEPT !.pc = "file",
                              !.out = unparse(prepareForCSVExport(codec.doc))]
    /\ UNCHANGED <<db, db0, touched, issued, folder, args, loopVars, tasks, unhandled,
                   exportLocals, thrown, exitCode, variant, progressBars>>

NextCsvExport == UnparseDocuments

InitCsvExport ==
    /\ Idle("convert")
    /\ action = ""
    /\ format = "csv"
    /\ clearCollections = FALSE
    /\ conflictStrategy = "insert"
    /\ db = <<>>
    /\ db0 = db
    /\ touched = {}
    /\ issued = <<>>
    /\ tasks = {}
    /\ \E n \in 1..MaxDocs :
         \E fields \in [1..n -> ExportFields] :
            codec = [pc |-> "documents",
                     doc |-> [k \in 1..n |-> ExportDocument(k, fields[k])],
                     out |-> <<>>]

SpecCsvExport == InitCsvExport /\ [][NextCsvExport]_vars

(***************************************************************************)
(* validate.ts: isValidObjectId on the characters of the string.           *)
(***************************************************************************)

\* The code unit of a character: the digits, the letters a-f and A-F at the
\* ends and inside of their ranges, characters outside of the ranges next to
\* their ends, a space and a line feed.
CharCode ==
    ("\n" :> 10) @@ (" " :> 32) @@ ("/" :> 47) @@ ("0" :> 48) @@ ("5" :> 53) @@
    ("9" :> 57) @@ (":" :> 58) @@ ("@" :> 64) @@ ("A" :> 65) @@ ("C" :> 67) @@
    ("F" :> 70) @@ ("G" :> 71) @@ ("_" :> 95) @@ ("a" :> 97) @@ ("c" :> 99) @@
    ("f" :> 102) @@ ("g" :> 103)

Chars == DOMAIN CharCode

\* [0-9a-fA-F]
HexClass(char) ==
    \/ CharCode[char] \in CharCode["0"]..CharCode["9"]
    \/ CharCode[char] \in CharCode["a"]..CharCode["f"]
    \/ CharCode[char] \in CharCode["A"]..CharCode["F"]

\* /^[0-9a-fA-F]{24}/.test(str): the pattern without its $
testUnanchored(str) ==
    \E start \in 0..Len(str) :
        /\ start = 0
        /\ start + 24 <= Len(str)
        /\ \A k \in 1..24 : HexClass(str[start + k])

\* /^[0-9a-fA-F]{24}$/.test(str): a match may start at any index; ^ holds at
\* index 0 only and $ at the end of the input only (no m flag), and between
\* them are 24 characters of the class.
test(str) ==
    \E start \in 0..Len(str) :
        /\ start = 0
        /\ start + 24 <= Len(str)
        /\ \A k \in 1..24 : HexClass(str[start + k])
        /\ start + 24 = Len(str)

\* The strings handed in: up to MaxChars times one hexadecimal digit, with at
\* most one character replaced by any other.
ValidateInputs ==
    UNION {{[k \in 1..n |-> IF k = at THEN other ELSE digit] :
               digit \in {"0", "a", "F"}, at \in 0..n, other \in Chars} : n \in 0..MaxChars}

\* isValidObjectId(str)
Validate ==
    /\ codec.pc = "string"
    /\ codec' = [codec EXCEPT !.pc = "tested", !.out = test(codec.doc)]
    /\ UNCHANGED <<db, db0, touched, issued, folder, args, loopVars, tasks, unhandled,
                   exportLocals, thrown, exitCode, variant, progressBars>>

NextValidate == Validate

InitValidate ==
    /\ Idle("convert")
    /\ action = ""
    /\ format = "json"
    /\ clearCollections = FALSE
    /\ conflictStrategy = "insert"
    /\ db = <<>>
    /\ db0 = db
    /\ touched = {}
    /\ issued = <<>>
    /\ tasks = {}
    /\ \E str \in ValidateInputs : codec = [pc |-> "string", doc |-> str, out |-> FALSE]

SpecValidate == InitValidate /\ [][NextValidate]_vars




\* ----------------------------------------------------------------- main
mainFrame == <<db, db0, touched, issued, args, codec, variant, progressBars, importLocals, idx, tasks, unhandled, exportLocals>>

\* cli.ts line 53; the catch of lines 153-156.
EnsureFolderExists ==
    /\ pc = "main"
    /\ \E fault \in BOOLEAN :
          IF fault
          THEN pc' = "finally" /\ thrown' = "ensureFolderExists" /\ exitCode' = 1
          ELSE pc' = "connect" /\ UNCHANGED <<thrown, exitCode>>
    /\ UNCHANGED <<mainFrame, folder>>

\* cli.ts lines 67-68 and 147-148; the catch of lines 153-156.
Connect ==
    /\ pc = "connect"
    /\ \E fault \in BOOLEAN :
          IF fault
          THEN pc' = "finally" /\ thrown' = "connect" /\ exitCode' = 1
          ELSE /\ pc' = IF action = "export" THEN "clearFolder" ELSE "importCollections"
               /\ UNCHANGED <<thrown, exitCode>>
    /\ UNCHANGED <<mainFrame, folder>>

\* cli.ts lines 105-114: the operator may have the export folder cleared.
ClearFolder ==
    /\ pc = "clearFolder"
    /\ \E clearExportFolder \in BOOLEAN, fault \in BOOLEAN :
          IF clearExportFolder /\ fault
          THEN /\ pc' = "finally" /\ thrown' = "clearFolder" /\ exitCode' = 1
               /\ UNCHANGED folder
          ELSE /\ pc' = "exportCollections"
               /\ disk' = IF clearExportFolder THEN <<>> ELSE disk
               /\ manifest' = IF clearExportFolder THEN NoManifest ELSE manifest
               /\ UNCHANGED <<thrown, exitCode>>
    /\ UNCHANGED mainFrame

\* cli.ts lines 153-156: an error left the pipeline.
Catch ==
    /\ action # ""
    /\ pc = "threw"
    /\ exitCode' = 1
    /\ pc' = "finally"
    /\ UNCHANGED <<mainFrame, folder, thrown>>

\* cli.ts lines 116 and 150: the pipeline returned.
Return ==
    /\ action # ""
    /\ pc = "returned"
    /\ pc' = "finally"
    /\ UNCHANGED <<mainFrame, folder, thrown, exitCode>>

\* cli.ts lines 156-161: the connection is closed and the process exits.
Finally ==
    /\ pc = "finally"
    /\ pc' = "exited"
    /\ UNCHANGED <<mainFrame, folder, thrown, exitCode>>

Next ==
    \/ EnsureFolderExists
    \/ Connect
    \/ ClearFolder
    \/ Catch
    \/ Return
    \/ Finally
    \/ NextImport
    \/ NextExport

\* main calls importCollections with the answers of the prompts: the strategy
\* is asked for only when the collections are not cleared, and is 'insert'
\* otherwise (cli.ts lines 135-150).
Init ==
    /\ pc = "main"
    /\ \/ action = "import" /\ ImportRun /\ (clearCollections => conflictStrategy = "insert")
       \/ action = "export" /\ ExportRun
    /\ AtRest

Spec == Init /\ [][Next]_vars

\* ================================================================ claims
BatchIds(batch) == {d._id : d \in Range(batch)}

DistinctIds(batch) == \A j, k \in 1..Len(batch) : batch[j]._id = batch[k]._id => j = k

\* The first document of the batch with this _id.
FirstWithId(batch, i) ==
    batch[CHOOSE k \in 1..Len(batch) :
              batch[k]._id = i /\ \A j \in 1..(k - 1) : batch[j]._id # i]

C2_UpsertReplacesOrCreates ==
    \A t \in tasks :
        (/\ pc = "executeDbBatch" /\ conflictStrategy = "upsert" /\ ~t.clear
         /\ DistinctIds(t.batch) /\ t.stage = "returned") =>
            db[t.collectionName] =
                {d \in db0[t.collectionName] : d._id \notin BatchIds(t.batch)}
                    \cup Range(t.batch)

\* prior {1:old}, batch [{1:new},{2:new}] ends as {1:new},{2:new}.
C2_Witness ==
    \E t \in tasks :
        /\ pc = "executeDbBatch" /\ conflictStrategy = "upsert" /\ ~t.clear
        /\ t.stage = "returned"
        /\ db0["a"] = {[_id |-> 1, v |-> 0]}
        /\ t.batch = <<[_id |-> 1, v |-> 1], [_id |-> 2, v |-> 1]>>
        /\ db["a"] = {[_id |-> 1, v |-> 1], [_id |-> 2, v |-> 1]}

\* C3: executeDbBatch under skip without clear: every record that was there
\* stays as it was, whatever the outcome of the call; a record that was not
\* there is a batch document whose _id was free; and once the call returned
\* every _id of the batch has a record.
C3_SkipLeavesOldUntouched ==
    \A t \in tasks :
        (pc = "executeDbBatch" /\ conflictStrategy = "skip" /\ ~t.clear) =>
            /\ db0[t.collectionName] \subseteq db[t.collectionName]
            /\ \A d \in db[t.collectionName] \ db0[t.collectionName] :
                  d \in Range(t.batch) /\ ~HasId(db0[t.collectionName], d._id)
            /\ t.stage = "returned" =>
                  \A i \in BatchIds(t.batch) : HasId(db[t.collectionName], i)

\* prior {1:old}, batch [{1:new},{2:new}] ends as {1:old},{2:new}.
C3_Witness ==
    \E t \in tasks :
        /\ pc = "executeDbBatch" /\ conflictStrategy = "skip" /\ ~t.clear
        /\ t.stage = "returned"
        /\ db0["a"] = {[_id |-> 1, v |-> 0]}
        /\ t.batch = <<[_id |-> 1, v |-> 1], [_id |-> 2, v |-> 1]>>
        /\ db["a"] = {[_id |-> 1, v |-> 0], [_id |-> 2, v |-> 1]}


\* ------------------------------------------- the files of an import run
\* The data files with a usable name.
ValidFiles == {f \in DOMAIN disk : f.ext = format /\ getCollectionName(f) # NullName}

\* The manifest turns verification on: it is there and has an entry.
ManifestInForce == manifest.present /\ DOMAIN manifest.entries # {}

\* verify(entries, fileName, bytes) of the spec, on the folder as it is.
ManifestSays(f) ==
    IF f \notin DOMAIN manifest.entries THEN "Missing"
    ELSE IF manifest.entries[f] # sha256(disk[f]) THEN "Mismatch"
    ELSE "Match"

ErrorsOf(errors, f) == {k \in 1..Len(errors) : errors[k].file = f}

ChecksumReasons == {"No checksum found", "Checksum mismatch"}

\* The import loop is over for the file.
Finalized(f) ==
    /\ pc \in {"import", "json", "csv", "returned"}
    /\ \E k \in 1..Len(collectionInfo) : k < idx /\ collectionInfo[k].file = f

Succeeded(f) == Finalized(f) /\ ErrorsOf(importErrors, f) = {}

InFlight(c) == \E t \in tasks : t.collectionName = c

\* C4: with verification on, a file the manifest has no entry for, or another
\* digest for, is recorded once as failed with the checksum as the reason, and
\* no database operation is ever applied to its collection; a file whose
\* digest matches has no checksum error, and when the run has reached its
\* summary and the file holds documents it is either recorded as failed or
\* its collection was written to, whatever happened to the other files.
C4_ChecksumFailureSkipsTheFile ==
    \A f \in ValidFiles :
        ManifestInForce =>
            LET c == getCollectionName(f)
            IN IF ManifestSays(f) \in {"Missing", "Mismatch"}
               THEN /\ c \notin touched
                    /\ db[c] = db0[c]
                    /\ ~InFlight(c)
                    /\ pc \in {"import", "json", "csv", "returned", "crashed"} =>
                          /\ Cardinality(ErrorsOf(importErrors, f)) = 1
                          /\ \A k \in ErrorsOf(importErrors, f) :
                                importErrors[k].reason \in ChecksumReasons
               ELSE /\ \A k \in ErrorsOf(importErrors, f) :
                          importErrors[k].reason \notin ChecksumReasons
                    /\ (pc = "returned" /\ disk[f].docs # <<>> /\ ~disk[f].bad) =>
                          (ErrorsOf(importErrors, f) # {} \/ c \in touched)

\* File a fails the check and holds a document its collection has an older
\* record of; file b matches; the run reached its summary, b was written, a
\* was not.
C4_Witness ==
    /\ ManifestInForce
    /\ pc = "returned"
    /\ File("a", format) \in ValidFiles /\ File("b", format) \in ValidFiles
    /\ ManifestSays(File("a", format)) = "Mismatch"
    /\ ManifestSays(File("b", format)) = "Match"
    /\ disk[File("a", format)].docs # <<>>
    /\ db["a"] = db0["a"]
    /\ db["b"] # db0["b"]
    /\ Cardinality(ErrorsOf(importErrors, File("a", format))) = 1
    /\ ErrorsOf(importErrors, File("b", format)) = {}

\* C5: with the clear flag, a file whose import succeeded has had the records
\* that were in its collection before the run deleted, whatever the number
\* of documents it decodes to.
C5_ClearDeletesWhatWasThere ==
    \A f \in ValidFiles :
        (clearCollections /\ Succeeded(f)) =>
            \A d \in db[getCollectionName(f)] : d.v # 0

\* C6: with the clear flag, whatever the strategy, a file that holds
\* documents and whose import succeeded leaves its collection as insertMany
\* of all its documents into the empty collection does.
C6_ClearMakesStrategyMoot ==
    \A f \in ValidFiles :
        (/\ clearCollections /\ Succeeded(f) /\ disk[f].docs # <<>>
         /\ ~InFlight(getCollectionName(f))) =>
            db[getCollectionName(f)] = insertMany({}, Decode(disk[f])).coll

\* C7: when a write of a file's documents has thrown, the code that takes the
\* error records the file as failed and the process goes on.
C7_WriteErrorFailsOnlyItsFile ==
    [][\A t \in tasks :
          (t.stage = "threw" /\ t \notin tasks') =>
              /\ pc' # "crashed"
              /\ \E e \in Range(importErrors') : getCollectionName(e.file) = t.collectionName
      ]_vars

\* ----------------------------------------- the collections of an export run
\* The round of the export loop for the collection is over.
RoundOver(c) ==
    /\ pc \in {"export", "exportJson", "exportCsv", "finish", "hash", "returned", "crashed"}
    /\ \E k \in 1..Len(collections) : k < idx /\ collections[k] = c

ExportErrorsOf(c) == {k \in 1..Len(exportErrors) : exportErrors[k].collection = c}

\* The file of a collection whose export succeeded.
Exported(c) ==
    IF db[c] = {} THEN emptyContent ELSE Written(db[c], Cardinality(db[c]), TRUE)

\* C8: a collection whose cursor, file write or file read failed, at whatever
\* moment, does not end the process, and once its round is over it is
\* recorded once in exportErrors and has no checksum; a collection without
\* such a failure is never recorded as failed, and once its round is over its
\* file is complete and has its checksum.
C8_FailureStaysWithItsCollection ==
    \A c \in Range(collections) :
        IF c \in failed
        THEN /\ pc # "crashed"
             /\ RoundOver(c) =>
                   /\ Cardinality(ExportErrorsOf(c)) = 1
                   /\ File(c, format) \notin DOMAIN checksums
        ELSE /\ ExportErrorsOf(c) = {}
             /\ RoundOver(c) =>
                   /\ File(c, format) \in DOMAIN checksums
                   /\ disk[File(c, format)] = Exported(c)
                   /\ checksums[File(c, format)] = sha256(Exported(c))

\* The calls of exportCollections that are made for one collection outside
\* the try block of the collection.
PerCollectionCalls == {"countDocuments", "writeFile"}

\* C9: no failure of a call made for one collection leaves exportCollections.
C9_ExportNeverRaises == pc = "threw" => thrown \notin PerCollectionCalls

\* The failures of the setup: the data folder cannot be created, cleared,
\* listed or written to, the database cannot be connected to or listed.
SetupFailures ==
    {"ensureFolderExists", "connect", "clearFolder", "readdir", "listCollections", "manifest"}

\* C10: the exit code is not 0 only when a call of the setup failed.
C10_NonZeroExitOnlyOnSetupFailure == exitCode # 0 => thrown \in SetupFailures

\* C11 as the spec has it: the export of an empty collection leaves no file
\* in the folder and no entry among the checksums, and is not a failure.
C11_EmptyCollectionLeavesNoFile ==
    \A c \in Range(collections) :
        db[c] = {} =>
            /\ File(c, format) \notin DOMAIN disk
            /\ File(c, format) \notin DOMAIN checksums
            /\ ExportErrorsOf(c) = {}

\* C11 as the code has it: the export of an empty collection is never a
\* failure, and once its round is over the folder holds its file with the
\* text '[]' (JSON) or '' (CSV) and the checksums hold the digest of that text;
\* the manifest that is written carries the entry.
C11_EmptyCollectionLeavesEmptyFile ==
    \A c \in Range(collections) :
        db[c] = {} =>
            /\ ExportErrorsOf(c) = {}
            /\ c \notin failed
            /\ RoundOver(c) =>
                  /\ File(c, format) \in DOMAIN disk
                  /\ disk[File(c, format)] = Content(<<>>, FALSE, format = "json")
                  /\ File(c, format) \in DOMAIN checksums
                  /\ checksums[File(c, format)] = sha256(Content(<<>>, FALSE, format = "json"))
            /\ (pc = "returned" /\ manifest.present) =>
                  /\ File(c, format) \in DOMAIN manifest.entries
                  /\ manifest.entries[File(c, format)] = sha256(disk[File(c, format)])

\* Collection a is empty, b is not; the export returned and the manifest has
\* an entry for the file of a.
C11_Witness ==
    /\ pc = "returned"
    /\ collections = <<"a", "b">>
    /\ db["a"] = {} /\ db["b"] # {}
    /\ manifest.present
    /\ File("a", format) \in DOMAIN manifest.entries
    /\ disk[File("a", format)].docs = <<>>
    /\ exportErrors = <<>>

\* C12: the mapping import parses from the manifest text export wrote is the
\* mapping export accumulated.
C12_ManifestRoundTrip ==
    (pc = "returned" /\ manifest.present) => ParseManifest(manifest.text) = checksums

AllErrors == Range(countErrors) \cup Range(importErrors)

IdsOf(coll) == {d._id : d \in coll}

\* No call of the export failed, and no write of the import failed with
\* another error than the duplicate key error.
NothingFailed ==
    /\ failed = {}
    /\ exportErrors = <<>>
    /\ \A e \in Range(importErrors) : e.reason # "write error"

\* C14: when a database was exported to JSON and the folder was imported into
\* an empty database, and no call failed on the way, every collection that
\* held documents holds documents with the same _id values again.
C14_JsonRoundTrip ==
    (action = "import" /\ pc = "returned" /\ format = "json" /\ NothingFailed) =>
        \A c \in DOMAIN db0 : db0[c] # {} => IdsOf(db[c]) = IdsOf(db0[c])

\* C15: a document made of ObjectId, Date and numeric values, nested in arrays
\* and objects, comes back equal from convertExtendedJSON after
\* prepareForJSONExport.
C15_CodecRoundTrip ==
    codec.pc = "converted" => codec.out = codec.doc

\* A document with an ObjectId, a Date inside an array inside an object, and a
\* number has gone through both conversions.
C15_Witness ==
    /\ codec.pc = "converted"
    /\ codec.doc = Obj(<<Entry("_id", ObjectId(1)),
                         Entry("a", Obj(<<Entry("_id", Num(1)),
                                          Entry("a", Arr(<<Date(1), ObjectId(2)>>))>>))>>)

\* The file parses and holds no document: the text [] or a CSV without rows.
EmptyFile(f) == disk[f].docs = <<>> /\ ~disk[f].bad

\* The checksum gate lets the file through.
PassesGate(f) == ManifestInForce => ManifestSays(f) = "Match"

\* C16: a file that holds no document and passes the checksum gate never has a
\* database operation applied to its collection, not even the clearing, is
\* never recorded as failed, and counts as succeeded once the run has reached
\* its summary.
C16_EmptyFileIsANoOp ==
    \A f \in ValidFiles :
        (EmptyFile(f) /\ PassesGate(f)) =>
            LET c == getCollectionName(f)
            IN /\ c \notin touched
               /\ ~InFlight(c)
               /\ db[c] = db0[c]
               /\ ErrorsOf(countErrors, f) = {}
               /\ ErrorsOf(importErrors, f) = {}
               /\ pc = "returned" => Succeeded(f)

\* The file of collection a is [], the collection held a record, clearing was
\* asked for; the run reached its summary with the file succeeded and the
\* record still there, while file b was imported.
C16_Witness ==
    /\ pc = "returned"
    /\ format = "json"
    /\ clearCollections
    /\ File("a", format) \in ValidFiles /\ File("b", format) \in ValidFiles
    /\ EmptyFile(File("a", format)) /\ disk[File("a", format)].small
    /\ PassesGate(File("a", format))
    /\ Succeeded(File("a", format))
    /\ db0["a"] # {} /\ db["a"] = db0["a"]
    /\ "b" \in touched

\* The name does not match <name>.<ext>.
Unusable(f) == f.base = "" \/ f.ext \notin Formats

HasDuplicate(f) ==
    \E k \in 1..Len(disk[f].docs) : HasId(db0[getCollectionName(f)], disk[f].docs[k])

\* C18: under insert without clear, a file with a document whose _id was
\* already in the collection, once its batches were sent and the run has
\* reached its summary, is among the run's failures.
C18_InsertFailsOnDuplicate ==
    \A f \in ValidFiles :
        (/\ conflictStrategy = "insert" /\ ~clearCollections
         /\ pc = "returned"
         /\ Finalized(f)
         /\ getCollectionName(f) \in touched
         /\ HasDuplicate(f)) =>
            ErrorsOf(importErrors, f) # {}

\* Lines 297-311 were reached: the summary was written.
SummaryEmitted == pc = "returned" /\ collectionInfo # <<>>

\* The summary names every failed file once, with a reason, and its counts of
\* failed and of successful imports are those of the discovered files.
SummaryAccounts ==
    /\ \A f \in Range(dataFiles) : Cardinality(ErrorsOf(importErrors, f)) <= 1
    /\ \A k \in 1..Len(importErrors) :
          importErrors[k].file \in Range(dataFiles) /\ importErrors[k].reason # ""
    /\ Len(dataFiles) - Len(importErrors) >= 0
    /\ Len(dataFiles) - Len(importErrors) =
          Cardinality({f \in Range(dataFiles) : ErrorsOf(importErrors, f) = {}})

\* C19: an import run that discovered a data file and is over, by its return
\* or by the end of the process, has written its summary, and the summary
\* accounts for every discovered file.
C19_SummaryAccountsForEveryFile ==
    (dataFiles # <<>> /\ pc \in {"returned", "crashed"}) =>
        SummaryEmitted /\ SummaryAccounts

\* C20: under upsert and under skip, without clear, a second import of the
\* same folder that has written its summary without a failure, its writes
\* done, leaves every collection as the first import left it.
C20_SecondImportChangesNothing ==
    (/\ action = "import-again"
     /\ conflictStrategy \in {"upsert", "skip"} /\ ~clearCollections
     /\ pc = "returned" /\ collectionInfo # <<>> /\ importErrors = <<>> /\ tasks = {}) =>
        \A c \in DOMAIN db : db[c] = db0[c]

\* Under upsert the file of collection a holds two documents with _id 1 and
\* the collection had a record with _id 1; the second import wrote to the
\* collection and left the second document there, as the first import had.
C20_Witness ==
    /\ action = "import-again"
    /\ conflictStrategy = "upsert" /\ ~clearCollections
    /\ pc = "returned" /\ importErrors = <<>> /\ tasks = {}
    /\ File("a", format) \in DOMAIN disk
    /\ disk[File("a", format)].docs = <<1, 1>>
    /\ "a" \in touched
    /\ db["a"] = {[_id |-> 1, v |-> 2]}
    /\ db0["a"] = db["a"]

\* ------------------------------------------------ the states of a file
\* importCollections is running or has returned.
InImport == pc \in {"importCollections", "count", "import", "json", "csv", "returned"}

\* The import loop is at the file: it is being decoded and written.
Begun(f) == pc \in {"json", "csv"} /\ cur.file = f

C22_ImportReachesSummary ==
    (pc = "count") ~>
        (pc = "returned" /\ \A k \in 1..Len(collectionInfo) : Finalized(collectionInfo[k].file))

\* The calls of executeDbBatch for the collection whose database operations
\* are still to be applied or acknowledged.
Awaiting(c) == {t \in tasks : t.collectionName = c /\ t.stage \in {"call", "cleared"}}

\* C23: once the import loop is done with a file, no call of executeDbBatch
\* made for the file is still awaiting its database operations.
C23_FinalizedAfterItsWrites ==
    \A f \in ValidFiles : Finalized(f) => Awaiting(getCollectionName(f)) = {}

\* C24: while a JSON file is streamed, at most one call of executeDbBatch for
\* its collection is awaiting its database operations.
C24_OneWriteInFlight ==
    pc = "json" => Cardinality(Awaiting(getCollectionName(cur.file))) <= 1

\* C25: for a file that succeeded, the documents handed to executeDbBatch for
\* its collection, batch after batch in the order of the calls, are the
\* documents of the file in file order, each once.
C25_EveryDocumentWrittenOnce ==
    \A f \in ValidFiles :
        Succeeded(f) => issued[getCollectionName(f)] = Decode(disk[f])

\* C26: every bulk write issued during import carries at least one and at most
\* batchSize documents, on the JSON streaming path and on the CSV path.
C26_BatchesAreBounded ==
    \A t \in tasks : 1 <= Len(t.batch) /\ Len(t.batch) <= batchSize

\* A CSV file of batchSize + 1 documents has its trailing batch of one document
\* under way.
C26_Witness ==
    /\ pc = "csv"
    /\ cur.pos = batchSize
    /\ Len(disk[cur.file].docs) = batchSize + 1
    /\ \E t \in tasks : t.ctx = "csv" /\ Len(t.batch) = 1

\* The file being read has a partial batch waiting, no write under way, and
\* 100 ms have passed since the last flush.
Overdue ==
    /\ pc = "json"
    /\ cur.flowing /\ ~cur.ended /\ ~cur.errored
    /\ cur.pos < Len(disk[cur.file].docs)
    /\ cur.batch # <<>>
    /\ cur.elapsed

\* C27: on the JSON path a non-empty pending batch is flushed when it reaches
\* batchSize or when 100 ms have passed since the last flush, so a partial batch
\* of a file still being read gets flushed even if no further document arrives.
C27_PartialBatchIsFlushedInTime ==
    Overdue ~> (pc = "json" /\ Calls("data", getCollectionName(cur.file)) # {})

\* C28: the collection of an imported file is cleared at most once, before the
\* first batch of the file is written: no step of the import takes away a
\* document that a batch of the file has written.
C28_ClearedBeforeFirstBatchOnly ==
    [][\A c \in DOMAIN db : \A r \in db[c] :
          r.v >= 1 => \E q \in db'[c] : q._id = r._id]_vars

\* The file is no complete JSON array of documents.
Unparsable(f) == format = "json" /\ disk[f].bad

\* C29: a JSON file that cannot be parsed as a complete array causes no
\* mutation of its collection: no batch of it is handed to the database, and
\* with the clear flag set the collection is not cleared.
C29_UnparsableFileMutatesNothing ==
    \A f \in ValidFiles :
        Unparsable(f) =>
            LET c == getCollectionName(f)
            IN /\ c \notin touched
               /\ ~InFlight(c)
               /\ issued[c] = <<>>
               /\ db[c] = db0[c]

\* The run is over with the clear flag set; a.json has documents before its
\* broken end and is recorded as failed, and its collection still holds the
\* documents it held.
C29_Witness ==
    /\ pc = "returned"
    /\ clearCollections
    /\ LET a == File("a", "json")
       IN /\ a \in ValidFiles
          /\ Unparsable(a) /\ disk[a].docs # <<>>
          /\ Finalized(a) /\ ErrorsOf(importErrors, a) # {}
          /\ db["a"] # {} /\ db["a"] = db0["a"]

\* The output file was written to its end.
Complete(f) == f \in DOMAIN disk /\ ~disk[f].bad

\* The collections exportErrors has a record for.
FailedExports == {exportErrors[k].collection : k \in 1..Len(exportErrors)}

\* manifest.sha256 is written in one step, after the last round of the export
\* loop, and is never written again.
ManifestWrittenOnceAtTheEnd ==
    [][manifest' # manifest =>
          /\ ~manifest.present
          /\ pc = "export" /\ idx > Len(collections)
          /\ pc' = "returned"]_vars

\* Every entry of the manifest is the SHA-256 of the bytes of its file, which
\* was written to its end; a collection whose export failed has no entry.
EntriesAreDigests ==
    manifest.present =>
        /\ \A f \in DOMAIN manifest.entries :
              Complete(f) /\ manifest.entries[f] = sha256(disk[f])
        /\ \A c \in FailedExports : File(c, format) \notin DOMAIN manifest.entries

AllJobsDone == pc \in {"jobs", "returned"} /\ jobs # <<>> /\ \A c \in DOMAIN jobs : jobs[c].pc = "done"

\* C31: when the export jobs run concurrently, no update is lost in any
\* interleaving of the jobs: the completed count is at every moment the
\* number of jobs that have run to their end, so it equals the number of
\* collections once all have, and the checksum accumulator holds one entry,
\* the digest of the content, for each collection whose content was produced
\* and for no other.
C31_NoLostUpdate ==
    /\ completedCollections = Cardinality({c \in DOMAIN jobs : jobs[c].pc = "done"})
    /\ AllJobsDone => completedCollections = Len(collections)
    /\ DOMAIN checksums = {File(c, format) : c \in {d \in DOMAIN jobs : jobs[d].produced}}
    /\ \A c \in DOMAIN jobs :
          jobs[c].produced =>
              checksums[File(c, format)] = sha256(Written(db[c], Cardinality(db[c]), TRUE))

\* The three jobs of a run have run to their end: one found its collection
\* empty, one made its content and failed to write the file, one wrote it.
C31_Witness ==
    /\ AllJobsDone
    /\ Len(collections) = 3
    /\ completedCollections = 3
    /\ Cardinality(DOMAIN checksums) = 2
    /\ Cardinality(DOMAIN disk) = 1
    /\ Len(exportErrors) = 1

\* C32: during the JSON export of a collection the documents read from the
\* cursor and not yet written to the file are one at most, whatever the
\* relative speed of the cursor and the write stream.
C32_OneDocumentInMemory ==
    pc \in {"exportJson", "finish"} => fileWriteStream.buffered <= 1

\* The collection had no document when the progress bars were made and has
\* one now.
CountsDiffer(c) == c \notin progressBars /\ db[c] # {}

\* C33: with other clients writing to the database, a collection that was
\* empty at the first count and is not at the second is exported or recorded
\* as failed, and the collections after it are still processed: no error
\* other than that of a failing count or a failing write of an empty file
\* (claim C9) ends the run at such a collection.
C33_CountRaceIsContained ==
    (pc = "threw" /\ idx \in 1..Len(collections) /\ CountsDiffer(collections[idx]))
        => thrown \in PerCollectionCalls

\* A tagged leaf whose string is not what the tag asks for.
Malformed(tag, str) ==
    CASE tag = "$oid" -> ~isValidObjectId(str)
      [] tag = "$date" -> str \notin DOMAIN DateParse
      [] OTHER -> str \notin DOMAIN NumberOf

\* C34: convertExtendedJSON never raises, for any JSON input, and a malformed
\* tagged leaf (an $oid that is not 24 hexadecimal digits, a $date that cannot
\* be parsed, a $numberInt that is no number) is returned as its raw string.
C34_DecodeNeverRaises ==
    codec.pc = "decoded" =>
        /\ ~Raised(codec.out)
        /\ \A tag \in Tags, str \in JsonStrings :
              (codec.doc = Tagged(tag, str) /\ str # "" /\ Malformed(tag, str)) =>
                  codec.out = Str(str)

\* The strings of exactly 24 hexadecimal digits, and the strings of the form
\* YYYY-MM-DDTHH:MM:SS.mmmZ, among the strings of the JSON texts.
Hex24 == {"0000000000000000000000a1", "0000000000000000000000A2"}
IsoWithMilliseconds == {"1970-01-01T00:00:00.001Z"}

\* The object has no tag and its fields have the names of FieldNames.
Untagged(doc) ==
    /\ doc.t = "obj"
    /\ \A k \in 1..Len(doc.fields) : doc.fields[k].key \in FieldNames

\* What a string field becomes when 24 hexadecimal digits are promoted under
\* every field name.
Promoted(key, str) ==
    IF str \in Hex24 THEN ObjectId(HexBytes[str])
    ELSE IF str \in IsoWithMilliseconds THEN Date(DateParse[str])
    ELSE Str(str)

\* What a string field becomes when 24 hexadecimal digits are promoted under
\* the name _id only.
PromotedById(key, str) ==
    IF key = "_id" /\ str \in Hex24 THEN ObjectId(HexBytes[str])
    ELSE IF str \in IsoWithMilliseconds THEN Date(DateParse[str])
    ELSE Str(str)

HexCells == {"000000000000000000000001", "0000000000000000000000a1"}
DateCells == {"1970-01-01T00:00:00.001Z"}
NumeralCells == {"000000000000000000000001", "1", "2"}
BoolCells == {"true", "FALSE"}

\* What the JSON cells stand for once decoded; a cell that is no JSON text,
\* or whose decoding fails, stays the string.
JsonCells ==
    ("[1]" :> Arr(<<Num(1)>>)) @@
    ("{\"$oid\":\"0000000000000000000000a1\"}" :> ObjectId(1))

\* The rules of the claim in their order, the first that matches decides:
\* empty, 24 hexadecimal digits, date under a name ending in At or Dt, number,
\* boolean, JSON, string; a numeral under _id is no number.
CellAsStated(key, cell) ==
    CASE cell = "" -> Str("")
      [] cell \in HexCells -> ObjectId(HexBytes[cell])
      [] endsWithAtOrDt(key) /\ cell \in DateCells -> Date(DateParse[cell])
      [] cell \in NumeralCells /\ key # "_id" -> Num(NumberOf[cell])
      [] cell \in BoolCells -> Bool(cell = "true")
      [] cell \in DOMAIN JsonCells -> JsonCells[cell]
      [] OTHER -> Str(cell)

\* The rules with a date promoted under every name and a numeral taken for a
\* number under every name.
CellAsDecoded(key, cell) ==
    CASE cell = "" -> Str("")
      [] cell \in HexCells -> ObjectId(HexBytes[cell])
      [] cell \in DateCells -> Date(DateParse[cell])
      [] cell \in NumeralCells -> Num(NumberOf[cell])
      [] cell \in BoolCells -> Bool(cell = "true")
      [] cell \in DOMAIN JsonCells -> JsonCells[cell]
      [] OTHER -> Str(cell)

\* C36 as stated: convertCSVRow applies the rules in the order empty cell,
\* 24 hexadecimal digits (under _id and under any other name) before any
\* number, date under a name ending in At or Dt, number, true or false in
\* either case, JSON text through convertExtendedJSON, else the string; and a
\* numeral in the _id column is not made a number.
C36_CellRulesAsStated ==
    codec.pc = "document" =>
        \A k \in 1..Len(codec.doc.fields) :
            LET e == codec.doc.fields[k]
            IN codec.out.fields[k] = Entry(e.key, CellAsStated(e.key, e.value.s))

\* C36: convertCSVRow applies the rules in the order empty cell, 24
\* hexadecimal digits (under any name) before any number, date of the ISO form
\* with milliseconds (under any name, not only one ending in At or Dt), number,
\* true or false in either case, JSON text through convertExtendedJSON, else
\* the string; a numeral in the _id column is made a number unless it has 24
\* digits.
C36_CellRulesAsDecoded ==
    codec.pc = "document" =>
        \A k \in 1..Len(codec.doc.fields) :
            LET e == codec.doc.fields[k]
            IN codec.out.fields[k] = Entry(e.key, CellAsDecoded(e.key, e.value.s))

\* The row { _id: 24 digits, a: a date } was converted: _id is an ObjectId
\* and no number, a is a Date.
C36_Witness ==
    /\ codec.pc = "document"
    /\ codec.doc = Obj(<<Entry("_id", Str("000000000000000000000001")),
                         Entry("a", Str("1970-01-01T00:00:00.001Z"))>>)
    /\ codec.out = Obj(<<Entry("_id", ObjectId(3)), Entry("a", Date(1))>>)

\* The text of an exported value in its cell.
CellText(value) ==
    CASE value.t = "str" -> value.s
      [] value.t = "num" -> NumberToString(value.n)
      [] value.t = "date" -> toISOString(value)
      [] value.t = "oid" -> toHexString(value)
      [] value = Arr(<<Num(1)>>) -> "[1]"

\* C37: the CSV file's header is the keys of the first document in its key
\* order; every document gives one row with one cell per header column, the
\* cell of the document's value under that column's key (empty when the
\* document has no such key); a key that only a later document has is no
\* column, so its values are not in the file.
C37_HeaderFromFirstDocument ==
    codec.pc = "file" =>
        LET documents == codec.doc
            file == codec.out
            first == documents[1].fields
        IN /\ Len(file.header) = Len(first)
           /\ \A j \in DOMAIN first : file.header[j] = first[j].key
           /\ Len(file.rows) = Len(documents)
           /\ \A k \in DOMAIN documents :
                /\ Len(file.rows[k]) = Len(file.header)
                /\ \A j \in DOMAIN file.header :
                     LET held == {i \in DOMAIN documents[k].fields :
                                      documents[k].fields[i].key = file.header[j]}
                     IN IF held = {} THEN file.rows[k][j] = ""
                        ELSE \E i \in held :
                                file.rows[k][j] = CellText(documents[k].fields[i].value)
                /\ \A i \in DOMAIN documents[k].fields :
                     (\A j \in DOMAIN first : first[j].key # documents[k].fields[i].key)
                        => \A j \in DOMAIN file.header :
                              file.header[j] # documents[k].fields[i].key

\* Two documents were written, { _id, a } and then { _id, b, a }: the columns
\* are _id and a, and the second row holds nothing of b.
C37_Witness ==
    /\ codec.pc = "file"
    /\ codec.doc = <<Obj(<<Entry("_id", Num(1)), Entry("a", Str("x"))>>),
                     Obj(<<Entry("_id", Num(2)), Entry("b", Date(1)),
                           Entry("a", Arr(<<Num(1)>>))>>)>>
    /\ codec.out = [header |-> <<"_id", "a">>,
                    rows |-> <<(<<"1", "x">>), (<<"2", "[1]">>)>>]

\* The characters 0-9, a-f and A-F among Chars.
HexDigits == {"0", "5", "9", "a", "c", "f", "A", "C", "F"}

\* C38: isValidObjectId(s) is true if and only if s has exactly 24 characters
\* and every one of them is a hexadecimal digit; so it is false for 23 and for
\* 25 characters and for a string holding any other character.
C38_ExactlyTwentyFourHex ==
    codec.pc = "tested" =>
        LET s == codec.doc
        IN /\ codec.out = (Len(s) = 24 /\ \A k \in 1..Len(s) : s[k] \in HexDigits)
           /\ Len(s) \in {23, 25} => codec.out = FALSE
           /\ (\E k \in 1..Len(s) : s[k] \notin HexDigits) => codec.out = FALSE

\* 23 digits and the letter F were accepted.
C38_Witness ==
    /\ codec.pc = "tested"
    /\ codec.doc = [k \in 1..24 |-> IF k = 24 THEN "F" ELSE "0"]
    /\ codec.out = TRUE

\* 24 digits followed by a line feed were refused.
C38_WitnessRefused ==
    /\ codec.pc = "tested"
    /\ codec.doc = [k \in 1..25 |-> IF k = 25 THEN "\n" ELSE "a"]
    /\ codec.out = FALSE

====
